---- MODULE Spec2Model ----
(***************************************************************************)
(* Adaptive difficulty and quiz flow of the educational agent              *)
(* (adk/difficulty.py, adk/scaffolding.py, adk/quiz_tools.py,              *)
(* adk/storage.py).                                                        *)
(*                                                                         *)
(* Scores are the integers 0..100 standing for hundredths (0.85 is 85).    *)
(* A threshold 0.85 * (c / 3.0) is kept in three-hundredths, 85 * c, and a *)
(* score s is compared with it as 3 * s.  On scores written with two       *)
(* decimals the comparison of the floats agrees with the exact one: the    *)
(* only thresholds that are themselves two-decimal numbers are 0.85 and    *)
(* 0.50 (complexity 3, where c / 3.0 is exactly 1.0) and the clamps 0.95   *)
(* and 0.30, which the code writes as literals.                            *)
(***************************************************************************)
EXTENDS Integers, Sequences, FiniteSets, TLC

VARIABLES state, db, resp, calls, outages, adj_args, adj_ret

vars == <<state, db, resp, calls, outages, adj_args, adj_ret>>

(***************************************************************************)
(* Bounds of the model.                                                    *)
(***************************************************************************)
MaxRecords == 3

MaxSnippets == 2

MaxCalls == 4

MaxOutages == 1

MaxLongCalls == 12

MaxStoreCalls == 5

MaxErrors == 4

MaxTrendRecords == 6

(***************************************************************************)
(* Program constants.                                                      *)
(***************************************************************************)
MIN_LEVEL == 1

MAX_LEVEL == 6

DEFAULT_LEVEL == 3

DEFAULT_COMPLEXITY == 3

HISTORY_CAP == 10

Absent == 0

Null == 0

Min(a, b) == IF a <= b THEN a ELSE b

Max(a, b) == IF a >= b THEN a ELSE b

Take(s, n) == SubSeq(s, 1, Min(n, Len(s)))

Levels == MIN_LEVEL..MAX_LEVEL

Concepts == {"c1"}

(***************************************************************************)
(* A REAL column holding a quotient of two counters is kept as the         *)
(* fraction in lowest terms: two quotients are the same float exactly when *)
(* their fractions are equal.                                              *)
(***************************************************************************)
RECURSIVE GCD(_, _)
GCD(a, b) == IF b = 0 THEN a ELSE GCD(b, a % b)

Ratio(n, d) == [num |-> n \div GCD(n, d), den |-> d \div GCD(n, d)]

NoRow == [times_seen |-> 0, times_correct |-> 0, mastery_level |-> Ratio(0, 1), complexity |-> Null]

(***************************************************************************)
(* get_concept_complexity: the complexity column of the concept's mastery  *)
(* row, 3 when there is no row, the column is NULL or the lookup raises    *)
(* (up = FALSE).                                                           *)
(***************************************************************************)
get_concept_complexity_low_on_failure(mastery, concept_name, up) ==
  IF ~up THEN 1
  ELSE IF concept_name \notin DOMAIN mastery THEN DEFAULT_COMPLEXITY
  ELSE LET row == mastery[concept_name]
       IN IF row.complexity # Null THEN row.complexity ELSE DEFAULT_COMPLEXITY

get_concept_complexity_nullable(mastery, concept_name, up) ==
  IF ~up THEN DEFAULT_COMPLEXITY
  ELSE IF concept_name \notin DOMAIN mastery THEN DEFAULT_COMPLEXITY
  ELSE mastery[concept_name].complexity

get_concept_complexity(mastery, concept_name, up) ==
  IF ~up THEN DEFAULT_COMPLEXITY
  ELSE IF concept_name \notin DOMAIN mastery THEN DEFAULT_COMPLEXITY
  ELSE LET row == mastery[concept_name]
       IN IF row.complexity # Null THEN row.complexity ELSE DEFAULT_COMPLEXITY

(***************************************************************************)
(* Thresholds of calculate_difficulty_adjustment, in three-hundredths.     *)
(***************************************************************************)
increase_threshold_unclamped(complexity) == 85 * complexity

increase_threshold(complexity) == Min(85 * complexity, 285)

decrease_threshold_unfloored(complexity) == 50 * complexity

decrease_threshold(complexity) == Max(50 * complexity, 90)

(***************************************************************************)
(* The increase rule: the 3 most recent records all reach the increase     *)
(* threshold without a hint.                                               *)
(***************************************************************************)
IncreaseConditionAnyHints(records, complexity) ==
  /\ Len(records) >= 3
  /\ \A i \in 1..3 : 3 * records[i].score >= increase_threshold(complexity)

IncreaseConditionTwo(records, complexity) ==
  /\ Len(records) >= 2
  /\ \A i \in 1..2 : /\ 3 * records[i].score >= increase_threshold(complexity)
                     /\ records[i].hints_used = 0

IncreaseCondition(records, complexity) ==
  /\ Len(records) >= 3
  /\ \A i \in 1..3 : /\ 3 * records[i].score >= increase_threshold(complexity)
                     /\ records[i].hints_used = 0

(***************************************************************************)
(* The decrease rule: the 2 most recent records are both below the         *)
(* decrease threshold.                                                     *)
(***************************************************************************)
DecreaseConditionInclusive(records, complexity) ==
  \A i \in 1..Min(2, Len(records)) :
      3 * records[i].score <= decrease_threshold(complexity)

DecreaseCondition(records, complexity) ==
  \A i \in 1..Min(2, Len(records)) :
      3 * records[i].score < decrease_threshold(complexity)

IncreasedLevelUnclamped(current_level) == current_level + 1

IncreasedLevel(current_level) == Min(current_level + 1, MAX_LEVEL)

DecreasedLevelFloorTwo(current_level) == Max(current_level - 1, MIN_LEVEL + 1)

DecreasedLevel(current_level) == Max(current_level - 1, MIN_LEVEL)

IncreaseTypeAttempted(new_level, current_level) == "increase"

IncreaseType(new_level, current_level) ==
  IF new_level > current_level THEN "increase" ELSE "maintain"

DecreaseType(new_level, current_level) ==
  IF new_level < current_level THEN "decrease" ELSE "maintain"

Adjustment(prev, new, type, reason, scaf) ==
  [previous_level |-> prev, new_level |-> new, adjustment_type |-> type,
   reason |-> reason, scaffolding_recommended |-> scaf]

(***************************************************************************)
(* The rules of calculate_difficulty_adjustment once the complexity is     *)
(* known, increase before decrease.                                        *)
(***************************************************************************)
ApplyRulesDecreaseFirst(current_level, records, complexity) ==
  IF DecreaseCondition(records, complexity)
  THEN LET new_level == DecreasedLevel(current_level)
       IN Adjustment(current_level, new_level, DecreaseType(new_level, current_level),
                     "decrease_rule", new_level < current_level)
  ELSE IF IncreaseCondition(records, complexity)
  THEN LET new_level == IncreasedLevel(current_level)
       IN Adjustment(current_level, new_level, IncreaseType(new_level, current_level),
                     "increase_rule", FALSE)
  ELSE Adjustment(current_level, current_level, "maintain", "acceptable", FALSE)

ScaffoldingOnDecreaseRule(new_level, current_level) == TRUE

ScaffoldingRecommended(new_level, current_level) == new_level < current_level

ApplyRules(current_level, records, complexity) ==
  IF IncreaseCondition(records, complexity)
  THEN LET new_level == IncreasedLevel(current_level)
       IN Adjustment(current_level, new_level, IncreaseType(new_level, current_level),
                     "increase_rule", FALSE)
  ELSE IF DecreaseCondition(records, complexity)
  THEN LET new_level == DecreasedLevel(current_level)
       IN Adjustment(current_level, new_level, DecreaseType(new_level, current_level),
                     "decrease_rule",
                     ScaffoldingRecommended(new_level, current_level))
  ELSE Adjustment(current_level, current_level, "maintain", "acceptable", FALSE)

(***************************************************************************)
(* calculate_difficulty_adjustment(current_level, performance_records,     *)
(* concept_name), the storage it reads passed as mastery and up.           *)
(***************************************************************************)
calculate_difficulty_adjustment(current_level, records, concept_name, mastery, up) ==
  IF Len(records) < 2
  THEN Adjustment(current_level, current_level, "maintain", "insufficient", FALSE)
  ELSE
    LET complexity == IF concept_name # ""
                      THEN get_concept_complexity(mastery, concept_name, up)
                      ELSE DEFAULT_COMPLEXITY
    IN ApplyRules(current_level, records, complexity)

(***************************************************************************)
(* Session state after construction: no key is set.  A key read with       *)
(* state.get(key, default) is kept at its default while unset; only        *)
(* "difficulty:level" is tested for presence, Absent marks it unset.       *)
(***************************************************************************)
NoAdjustment == [type |-> "none", previous_level |-> 0, new_level |-> 0, reason |-> "none"]

EmptyState ==
  [snippets |-> <<>>, topic |-> "", index |-> 0, mistakes |-> 0,
   total_mistakes |-> 0, correct |-> 0, question_details |-> <<>>,
   db_id |-> Absent, level |-> Absent, history |-> <<>>,
   scaffolding_active |-> FALSE, hints_used_current |-> 0,
   consecutive_correct |-> 0, consecutive_incorrect |-> 0,
   last_adjustment |-> NoAdjustment]

EmptyDb ==
  [quiz_results |-> <<>>, mastery |-> [c \in {} |-> NoRow],
   performance_records |-> <<>>, difficulty_history |-> <<>>]

NoResp == [op |-> "none", status |-> "none"]

NoArgs == [current_level |-> 0, records |-> <<>>, concept_name |-> "", up |-> TRUE]

NoRet == Adjustment(0, 0, "none", "none", FALSE)

Topic == "t1"

QUESTION_TYPE_MAPPED == "comparison"

QUESTION_TYPE == "quiz_question"

(***************************************************************************)
(* scaffolding.py: detect_struggle_area and get_scaffolding_hints.         *)
(***************************************************************************)
Areas == <<"definition", "process", "relationship", "application">>

question_type_mapping(question_type) ==
  CASE question_type \in {"definition", "recognition", "true_false"} -> "definition"
    [] question_type \in {"problem_solving", "breakdown"} -> "process"
    [] question_type \in {"comparison", "cause_effect", "pattern_recognition"} -> "relationship"
    [] question_type \in {"scenario", "case_study", "design", "integration"} -> "application"
    [] OTHER -> "definition"

struggle_counts(recent_errors, area) ==
  Cardinality({i \in 1..Len(recent_errors) :
                 question_type_mapping(recent_errors[i].question_type) = area})

detect_struggle_area_last_max(recent_errors) ==
  IF recent_errors = <<>> THEN "definition"
  ELSE LET best == CHOOSE i \in 1..4 :
                     /\ \A j \in 1..4 : struggle_counts(recent_errors, Areas[j])
                                          <= struggle_counts(recent_errors, Areas[i])
                     /\ \A j \in (i + 1)..4 : struggle_counts(recent_errors, Areas[j])
                                                < struggle_counts(recent_errors, Areas[i])
       IN Areas[best]

detect_struggle_area(recent_errors) ==
  IF recent_errors = <<>> THEN "definition"
  ELSE LET best == CHOOSE i \in 1..4 :
                     /\ \A j \in 1..4 : struggle_counts(recent_errors, Areas[j])
                                          <= struggle_counts(recent_errors, Areas[i])
                     /\ \A j \in 1..(i - 1) : struggle_counts(recent_errors, Areas[j])
                                                < struggle_counts(recent_errors, Areas[i])
       IN Areas[best]

get_scaffolding_hints(struggle_area) ==
  IF \E i \in 1..4 : Areas[i] = struggle_area
  THEN [strategy |-> struggle_area]
  ELSE [strategy |-> "definition"]

RECURSIVE ErrorsInclusive(_)
ErrorsInclusive(records) ==
  IF records = <<>> THEN <<>>
  ELSE IF Head(records).score <= 60
       THEN <<[question_type |-> Head(records).question_type,
               score |-> Head(records).score,
               concept |-> Head(records).concept_tested]>> \o ErrorsInclusive(Tail(records))
       ELSE ErrorsInclusive(Tail(records))

RECURSIVE Errors(_)
Errors(records) ==
  IF records = <<>> THEN <<>>
  ELSE IF Head(records).score < 60
       THEN <<[question_type |-> Head(records).question_type,
               score |-> Head(records).score,
               concept |-> Head(records).concept_tested]>> \o Errors(Tail(records))
       ELSE Errors(Tail(records))

get_scaffolding(st) ==
  IF ~st.scaffolding_active
  THEN [status |-> "success", scaffolding_active |-> FALSE,
        struggle_area |-> "none", hints |-> [strategy |-> "none"]]
  ELSE LET struggle_area == detect_struggle_area(Errors(Take(st.history, 3)))
       IN [status |-> "success", scaffolding_active |-> TRUE,
           struggle_area |-> struggle_area,
           hints |-> get_scaffolding_hints(struggle_area)]

(***************************************************************************)
(* difficulty.py: calculate_performance_trend, on scores in hundredths.    *)
(* The half means are compared in binary floating point: when they differ  *)
(* by exactly 0.05 the rounding of the sums, the quotients and the +-0.05  *)
(* decides.  RoundingTips lists the windows over the scores 0, 0.40, 0.60, *)
(* 0.70, 0.85, 0.90 and 1.0 for which the rounded comparison then holds    *)
(* (the others at that distance come out "stable"); sums are taken left to *)
(* right in IEEE double precision.  The response-time and hint averages    *)
(* are left out.                                                           *)
(***************************************************************************)
RECURSIVE SumScores(_)
SumScores(scores) ==
  IF scores = <<>> THEN 0 ELSE Head(scores) + SumScores(Tail(scores))

RoundingTips ==
  {<<40, 0, 70>>, <<40, 70, 0>>, <<40, 40, 0, 70>>, <<40, 40, 70, 0>>,
   <<0, 70, 40, 40>>, <<70, 0, 40, 40>>, <<0, 70, 40, 40, 40>>, <<70, 0, 40, 40, 40>>,
   <<0, 90, 0, 60, 60>>, <<0, 90, 60, 0, 60>>, <<0, 90, 60, 60, 0>>,
   <<90, 0, 0, 60, 60>>, <<90, 0, 60, 0, 60>>, <<90, 0, 60, 60, 0>>,
   <<60, 70, 40, 70, 100>>, <<60, 70, 40, 85, 85>>, <<60, 70, 60, 60, 90>>,
   <<60, 70, 60, 90, 60>>, <<60, 70, 70, 40, 100>>, <<60, 70, 70, 100, 40>>,
   <<60, 70, 85, 40, 85>>, <<60, 70, 85, 85, 40>>, <<60, 70, 90, 60, 60>>,
   <<60, 70, 100, 70, 40>>,
   <<70, 60, 40, 70, 100>>, <<70, 60, 40, 85, 85>>, <<70, 60, 60, 60, 90>>,
   <<70, 60, 60, 90, 60>>, <<70, 60, 70, 40, 100>>, <<70, 60, 70, 100, 40>>,
   <<70, 60, 85, 40, 85>>, <<70, 60, 85, 85, 40>>, <<70, 60, 90, 60, 60>>,
   <<70, 60, 100, 70, 40>>,
   <<60, 90, 40, 100, 70>>, <<60, 90, 70, 70, 70>>, <<60, 90, 100, 40, 70>>,
   <<90, 60, 40, 100, 70>>, <<90, 60, 70, 70, 70>>, <<90, 60, 100, 40, 70>>}

score_trend(scores) ==
  IF Len(scores) >= 2
  THEN LET mid == Len(scores) \div 2
           rest == Len(scores) - mid
           first_half == SumScores(SubSeq(scores, 1, mid))
           second_half == SumScores(SubSeq(scores, mid + 1, Len(scores)))
           margin == 5 * mid * rest
       IN IF \/ second_half * mid > first_half * rest + margin
             \/ /\ second_half * mid = first_half * rest + margin
                /\ scores \in RoundingTips
          THEN "improving"
          ELSE IF \/ second_half * mid < first_half * rest - margin
                  \/ /\ second_half * mid = first_half * rest - margin
                     /\ scores \in RoundingTips
          THEN "declining"
          ELSE "stable"
  ELSE "stable"

RECURSIVE LeadingIncorrect(_)
LeadingIncorrect(scores) ==
  IF scores = <<>> \/ Head(scores) >= 60 THEN 0
  ELSE 1 + LeadingIncorrect(Tail(scores))

FirstCorrectCounted(scores) ==
  IF \E i \in 1..Len(scores) : scores[i] >= 60 THEN 1 ELSE 0

CountsAsOptimalBelow(score) == 60 <= score /\ score < 85

CountsAsOptimal(score) == 60 <= score /\ score <= 85

calculate_performance_trend(records, window_size) ==
  IF records = <<>>
  THEN [window_size |-> 0, avg_score |-> Ratio(0, 1), score_trend |-> "stable",
        consecutive_correct |-> 0, consecutive_incorrect |-> 0,
        optimal_zone_ratio |-> Ratio(0, 1)]
  ELSE LET window == Take(records, window_size)
           scores == [i \in 1..Len(window) |-> window[i].score]
           optimal_count == Cardinality({i \in 1..Len(scores) :
                                           CountsAsOptimal(scores[i])})
       IN [window_size |-> Len(window),
           avg_score |-> Ratio(SumScores(scores), 100 * Len(scores)),
           score_trend |-> score_trend(scores),
           consecutive_correct |-> FirstCorrectCounted(scores),
           consecutive_incorrect |-> LeadingIncorrect(scores),
           optimal_zone_ratio |-> Ratio(optimal_count, Len(scores))]

(***************************************************************************)
(* difficulty.py: _set_difficulty_level and _record_performance.           *)
(***************************************************************************)
ClampLevelNone(level) == level

ClampLevel(level) == Max(MIN_LEVEL, Min(MAX_LEVEL, level))

GetLevelLowest(st) == IF st.level = Absent THEN MIN_LEVEL ELSE st.level

GetLevel(st) == IF st.level = Absent THEN DEFAULT_LEVEL ELSE st.level

set_difficulty_level_clearing(st, level) ==
  [state |-> [st EXCEPT !.level = ClampLevel(level), !.hints_used_current = 0,
                        !.history = <<>>, !.scaffolding_active = FALSE],
   resp |-> [op |-> "set_difficulty_level", args |-> [level |-> level],
             status |-> "success", previous_level |-> GetLevel(st),
             new_level |-> ClampLevel(level)]]

set_difficulty_level(st, level) ==
  [state |-> [st EXCEPT !.level = ClampLevel(level), !.hints_used_current = 0],
   resp |-> [op |-> "set_difficulty_level", args |-> [level |-> level],
             status |-> "success", previous_level |-> GetLevel(st),
             new_level |-> ClampLevel(level)]]

InOptimalZoneAbove(score) == 60 < score /\ score <= 85

InOptimalZone(score) == 60 <= score /\ score <= 85

TREND_WINDOW == 5

PerfRecord(st, score, response_time_ms, hints_used, concept_name, question_type) ==
  [score |-> score, response_time_ms |-> response_time_ms, hints_used |-> hints_used,
   difficulty_level |-> GetLevel(st), concept_tested |-> concept_name,
   question_type |-> question_type, in_optimal_zone |-> InOptimalZone(score)]

InsertedOldestFirst(history, perf_record) == Append(history, perf_record)

Inserted(history, perf_record) == <<perf_record>> \o history

KeptTwo(history) == Take(history, 2)

Kept(history) == Take(history, HISTORY_CAP)

IsCorrectStrict(score) == score > 60

IsCorrect(score) == score >= 60

record_performance(st, score, response_time_ms, hints_used, concept_name, question_type, mastery, up) ==
  LET current_level == GetLevel(st)
      perf_record == PerfRecord(st, score, response_time_ms, hints_used,
                                concept_name, question_type)
      history == Inserted(st.history, perf_record)
      adjustment == calculate_difficulty_adjustment(current_level, history,
                                                    concept_name, mastery, up)
      summary == [type |-> adjustment.adjustment_type,
                  previous_level |-> adjustment.previous_level,
                  new_level |-> adjustment.new_level,
                  reason |-> adjustment.reason]
      trend == calculate_performance_trend(history, TREND_WINDOW)
  IN [state |->
        [st EXCEPT
           !.history = Kept(history),
           !.level = IF adjustment.new_level # current_level
                     THEN adjustment.new_level ELSE @,
           !.scaffolding_active = adjustment.scaffolding_recommended,
           !.hints_used_current = 0,
           !.consecutive_correct = IF IsCorrect(score) THEN @ + 1 ELSE 0,
           !.consecutive_incorrect = IF IsCorrect(score) THEN 0 ELSE @ + 1,
           !.last_adjustment = summary],
      resp |->
        [op |-> "record_performance",
         args |-> [score |-> score, response_time_ms |-> response_time_ms,
                   hints_used |-> hints_used, concept_name |-> concept_name,
                   question_type |-> question_type],
         status |-> "success", performance_recorded |-> TRUE,
         in_optimal_zone |-> perf_record.in_optimal_zone,
         difficulty_adjustment |-> summary,
         trend |-> [avg_score |-> trend.avg_score,
                    trend_direction |-> trend.score_trend,
                    consecutive_correct |-> trend.consecutive_correct]]]

(***************************************************************************)
(* storage.py: the tables the quiz flow writes.                            *)
(***************************************************************************)
start_quiz(d, topic, total_questions) ==
  [d EXCEPT !.quiz_results =
     Append(@, [topic |-> topic, total_questions |-> total_questions,
                correct_answers |-> 0, total_mistakes |-> 0,
                question_details |-> <<>>, completed |-> FALSE])]

update_quiz_progress(d, quiz_id, correct_answers, total_mistakes, question_details) ==
  IF quiz_id \in 1..Len(d.quiz_results)
  THEN [d EXCEPT !.quiz_results[quiz_id].correct_answers = correct_answers,
                 !.quiz_results[quiz_id].total_mistakes = total_mistakes,
                 !.quiz_results[quiz_id].question_details = question_details]
  ELSE d

complete_quiz(d, quiz_id) ==
  IF quiz_id \in 1..Len(d.quiz_results)
  THEN [d EXCEPT !.quiz_results[quiz_id].completed = TRUE]
  ELSE d

UpdatedMasteryStale(times_correct, times_seen) == Ratio(times_correct, times_seen - 1)

UpdatedMastery(times_correct, times_seen) == Ratio(times_correct, times_seen)

update_mastery(d, concept_name, correct) ==
  LET inc == IF correct THEN 1 ELSE 0
  IN IF concept_name \in DOMAIN d.mastery
     THEN LET times_seen == d.mastery[concept_name].times_seen + 1
              times_correct == d.mastery[concept_name].times_correct + inc
          IN [d EXCEPT !.mastery[concept_name].times_seen = times_seen,
                       !.mastery[concept_name].times_correct = times_correct,
                       !.mastery[concept_name].mastery_level =
                          UpdatedMastery(times_correct, times_seen)]
     ELSE [d EXCEPT !.mastery =
             [c \in DOMAIN @ \cup {concept_name} |->
                IF c = concept_name
                THEN [times_seen |-> 1, times_correct |-> inc,
                      mastery_level |-> Ratio(inc, 1),
                      complexity |-> DEFAULT_COMPLEXITY]
                ELSE @[c]]]

(***************************************************************************)
(* get_weak_concepts: the rows with mastery_level < threshold (threshold   *)
(* in hundredths), ORDER BY mastery_level ASC.  SQL leaves the order of    *)
(* rows with equal mastery open, so the operator yields every result the   *)
(* query can return.                                                       *)
(***************************************************************************)
BelowOrAt(mastery_level, threshold) ==
  mastery_level.num * 100 <= threshold * mastery_level.den

Below(mastery_level, threshold) ==
  mastery_level.num * 100 < threshold * mastery_level.den

AtMost(a, b) == a.num * b.den <= b.num * a.den

Orderings(S) ==
  {f \in [1..Cardinality(S) -> S] : \A i, j \in 1..Cardinality(S) : f[i] = f[j] => i = j}

get_weak_concepts(d, threshold) ==
  LET selected == {c \in DOMAIN d.mastery : Below(d.mastery[c].mastery_level, threshold)}
      sorted == {f \in Orderings(selected) :
                   \A i, j \in 1..Cardinality(selected) :
                      i < j => AtMost(d.mastery[f[i]].mastery_level,
                                      d.mastery[f[j]].mastery_level)}
  IN {[i \in 1..Cardinality(selected) |->
         [concept_name |-> f[i], mastery_level |-> d.mastery[f[i]].mastery_level]] :
      f \in sorted}

save_difficulty_adjustment_swapped(d, adj, scaffolding_recommended) ==
  [d EXCEPT !.difficulty_history =
     Append(@, [previous_level |-> adj.new_level, new_level |-> adj.previous_level,
                adjustment_type |-> adj.type, reason |-> adj.reason,
                triggered_by |-> "answer",
                scaffolding_recommended |-> scaffolding_recommended])]

save_difficulty_adjustment(d, adj, scaffolding_recommended) ==
  [d EXCEPT !.difficulty_history =
     Append(@, [previous_level |-> adj.previous_level, new_level |-> adj.new_level,
                adjustment_type |-> adj.type, reason |-> adj.reason,
                triggered_by |-> "answer",
                scaffolding_recommended |-> scaffolding_recommended])]

save_performance_record_replacing(d, quiz_id, question_number, score, difficulty_level, concept_tested) ==
  LET rec == [quiz_id |-> quiz_id, question_number |-> question_number,
              score |-> score, response_time_ms |-> 0, hints_used |-> 0,
              difficulty_level |-> difficulty_level,
              concept_tested |-> concept_tested, question_type |-> QUESTION_TYPE,
              in_optimal_zone |-> (60 <= score /\ score <= 85)]
      same == {i \in 1..Len(d.performance_records) :
                 /\ d.performance_records[i].quiz_id = quiz_id
                 /\ d.performance_records[i].question_number = question_number}
  IN IF same = {}
     THEN [d EXCEPT !.performance_records = Append(@, rec)]
     ELSE [d EXCEPT !.performance_records =
             [i \in 1..Len(@) |-> IF i \in same THEN rec ELSE @[i]]]

save_performance_record(d, quiz_id, question_number, score, difficulty_level, concept_tested) ==
  [d EXCEPT !.performance_records =
     Append(@, [quiz_id |-> quiz_id, question_number |-> question_number,
                score |-> score, response_time_ms |-> 0, hints_used |-> 0,
                difficulty_level |-> difficulty_level,
                concept_tested |-> concept_tested, question_type |-> QUESTION_TYPE,
                in_optimal_zone |-> (60 <= score /\ score <= 85)])]

get_last_difficulty_level_previous(d) ==
  IF d.difficulty_history = <<>> THEN Null
  ELSE d.difficulty_history[Len(d.difficulty_history)].previous_level

get_last_difficulty_level(d) ==
  IF d.difficulty_history = <<>> THEN Null
  ELSE d.difficulty_history[Len(d.difficulty_history)].new_level

(***************************************************************************)
(* quiz_tools.py: _prepare_quiz.  has_retriever is the module's retriever, *)
(* n the number of non-empty snippets found, up whether storage answers.   *)
(***************************************************************************)
NoSnippetsIgnored(n) == FALSE

NoSnippets(n) == n = 0

prepare_quiz(st, d, has_retriever, n, up) ==
  LET args == [topic |-> Topic, has_retriever |-> has_retriever, n |-> n, up |-> up]
  IN
  IF ~has_retriever
  THEN [state |-> st, db |-> d,
        resp |-> [op |-> "prepare", args |-> args, status |-> "error",
                  error_message |-> "no_retriever"]]
  ELSE IF NoSnippets(n)
  THEN [state |-> st, db |-> d,
        resp |-> [op |-> "prepare", args |-> args, status |-> "error",
                  error_message |-> "no_snippets"]]
  ELSE
    LET fresh == [st EXCEPT
                    !.snippets = [i \in 1..n |-> i], !.topic = Topic, !.index = 0,
                    !.mistakes = 0, !.total_mistakes = 0, !.correct = 0,
                    !.question_details = <<>>, !.level = DEFAULT_LEVEL,
                    !.history = <<>>, !.scaffolding_active = FALSE,
                    !.hints_used_current = 0, !.consecutive_correct = 0,
                    !.consecutive_incorrect = 0, !.last_adjustment = NoAdjustment]
        d1 == start_quiz(d, Topic, n)
        quiz_id == Len(d1.quiz_results)
        last_level == get_last_difficulty_level(d1)
        stored == [fresh EXCEPT !.db_id = quiz_id,
                                !.level = IF last_level # Null THEN last_level ELSE @]
    IN IF up
       THEN [state |-> stored, db |-> d1,
             resp |-> [op |-> "prepare", args |-> args, status |-> "success",
                       total_questions |-> n, current_index |-> 0,
                       quiz_id |-> quiz_id]]
       ELSE [state |-> fresh, db |-> d,
             resp |-> [op |-> "prepare", args |-> args, status |-> "success",
                       total_questions |-> n, current_index |-> 0,
                       quiz_id |-> Null]]

(***************************************************************************)
(* quiz_tools.py: _advance_quiz.                                           *)
(***************************************************************************)
NoBundle == [struggle_area |-> "none", hints |-> [strategy |-> "none"]]

AnswerScore(correct) == IF correct THEN 100 ELSE 0

AttemptsPrior(mistakes) == mistakes

Attempts(mistakes) == mistakes + 1

IsDoneStrict(idx, total) == idx > total

IsDone(idx, total) == idx >= total

NextIndexAlways(idx, correct) == idx + 1

NextIndex(idx, correct) == IF correct THEN idx + 1 ELSE idx

advance_quiz(st, d, correct, concept_name, up) ==
  LET args == [correct |-> correct, concept_name |-> concept_name, up |-> up]
  IN
  IF st.snippets = <<>>
  THEN [state |-> st, db |-> d,
        resp |-> [op |-> "advance", args |-> args, status |-> "error",
                  error_message |-> "not_prepared"]]
  ELSE
    LET concept == IF concept_name # "" THEN concept_name ELSE st.topic
        perf == record_performance(st, AnswerScore(correct), 0, 0, concept,
                                   QUESTION_TYPE, d.mastery, up)
        difficulty_adjustment == perf.resp.difficulty_adjustment
        st1 == perf.state
        question_details ==
          IF correct
          THEN Append(st.question_details,
                      [question_number |-> st.index + 1, correct |-> TRUE,
                       attempts |-> Attempts(st.mistakes), concept |-> concept])
          ELSE st.question_details
        idx == NextIndex(st.index, correct)
        total_correct == IF correct THEN st.correct + 1 ELSE st.correct
        mistakes == IF correct THEN 0 ELSE st.mistakes + 1
        total_mistakes == IF correct THEN st.total_mistakes ELSE st.total_mistakes + 1
        st2 == [st1 EXCEPT !.index = idx, !.mistakes = mistakes,
                           !.total_mistakes = total_mistakes,
                           !.correct = total_correct,
                           !.question_details = question_details]
        quiz_id == st2.db_id
        d1 == IF quiz_id # Absent
              THEN update_quiz_progress(d, quiz_id, total_correct, total_mistakes,
                                        question_details)
              ELSE d
        d2 == IF concept_name # "" THEN update_mastery(d1, concept_name, correct) ELSE d1
        d3 == IF difficulty_adjustment.type # "maintain"
              THEN save_difficulty_adjustment(d2, difficulty_adjustment,
                                              st2.scaffolding_active)
              ELSE d2
        d4 == save_performance_record(d3, quiz_id,
                                      IF correct THEN idx ELSE idx + 1,
                                      AnswerScore(correct), GetLevel(st2), concept)
        done == IsDone(idx, Len(st.snippets))
        d5 == IF done /\ quiz_id # Absent THEN complete_quiz(d4, quiz_id) ELSE d4
        scaffolding_result == get_scaffolding(st2)
        scaffolding_hints ==
          IF st2.scaffolding_active /\ scaffolding_result.status = "success"
             /\ scaffolding_result.scaffolding_active
          THEN [struggle_area |-> scaffolding_result.struggle_area,
                hints |-> scaffolding_result.hints]
          ELSE NoBundle
    IN [state |-> st2,
        db |-> IF up THEN d5 ELSE d,
        resp |-> [op |-> "advance", args |-> args, status |-> "success",
                  done |-> done,
                  next_question_number |-> Min(idx + 1, Len(st.snippets)),
                  total_questions |-> Len(st.snippets),
                  mistakes_on_current |-> mistakes,
                  total_correct |-> total_correct,
                  total_mistakes |-> total_mistakes,
                  difficulty |-> [current_level |-> GetLevel(st2),
                                  adjusted |-> difficulty_adjustment.type # "maintain",
                                  scaffolding_active |-> st2.scaffolding_active],
                  scaffolding |-> scaffolding_hints]]

(***************************************************************************)
(* quiz_tools.py: _get_quiz_step and _reveal_context read the snippet at   *)
(* the clamped index (0-based in the code, so snippet ClampIndex + 1       *)
(* here); difficulty.py: _get_difficulty_level.  None of them writes.      *)
(***************************************************************************)
ClampIndexBefore(idx, total) == Max(0, Min(idx - 1, total - 1))

ClampIndex(idx, total) == Max(0, Min(idx, total - 1))

get_quiz_step(st) ==
  IF st.snippets = <<>>
  THEN [op |-> "get_quiz_step", status |-> "error", error_message |-> "not_prepared"]
  ELSE LET idx == ClampIndex(st.index, Len(st.snippets))
       IN [op |-> "get_quiz_step", status |-> "success", topic |-> st.topic,
           question_number |-> idx + 1, total_questions |-> Len(st.snippets),
           hint_snippet |-> st.snippets[idx + 1],
           mistakes_on_question |-> st.mistakes]

reveal_context(st) ==
  IF st.snippets = <<>>
  THEN [op |-> "reveal_context", status |-> "error", error_message |-> "not_prepared"]
  ELSE LET idx == ClampIndex(st.index, Len(st.snippets))
       IN [op |-> "reveal_context", status |-> "success",
           context |-> st.snippets[idx + 1],
           question_number |-> idx + 1, total_questions |-> Len(st.snippets)]

hint_allowance(level) == Max(0, 4 - level)

HasLevelAlways(st) == TRUE

HasLevel(st) == st.level # Absent

get_difficulty_level(st) ==
  IF ~HasLevel(st)
  THEN [op |-> "get_difficulty_level", status |-> "error",
        error_message |-> "not_prepared"]
  ELSE LET current_level == GetLevel(st)
       IN [op |-> "get_difficulty_level", status |-> "success",
           level |-> current_level,
           hint_allowance |-> hint_allowance(current_level),
           hints_remaining |-> Max(0, hint_allowance(current_level)
                                        - st.hints_used_current),
           scaffolding_active |-> st.scaffolding_active]

(***************************************************************************)
(* The session machine: one action per tool call.  A call made while       *)
(* storage raises (up = FALSE) counts as an outage.                        *)
(***************************************************************************)
LevelInputs == {-1, 0, 2, 5, 7}

RecordInputs ==
  {[score |-> 40, response_time_ms |-> 900, hints_used |-> 0, question_type |-> "comparison"],
   [score |-> 70, response_time_ms |-> 0, hints_used |-> 1, question_type |-> "definition"],
   [score |-> 90, response_time_ms |-> 500, hints_used |-> 0, question_type |-> "scenario"],
   [score |-> 60, response_time_ms |-> 0, hints_used |-> 0, question_type |-> "comparison"],
   [score |-> 40, response_time_ms |-> 0, hints_used |-> 0, question_type |-> "true_false"],
   [score |-> 85, response_time_ms |-> 0, hints_used |-> 0, question_type |-> "problem_solving"]}

Init ==
  /\ state = EmptyState
  /\ db = EmptyDb
  /\ resp = NoResp
  /\ calls = 0
  /\ outages = 0
  /\ adj_args = NoArgs
  /\ adj_ret = NoRet

Outage(up) == IF up THEN outages ELSE outages + 1

Apply(result, up) ==
  /\ state' = result.state
  /\ db' = result.db
  /\ resp' = result.resp
  /\ calls' = calls + 1
  /\ outages' = Outage(up)
  /\ UNCHANGED <<adj_args, adj_ret>>

Prepare ==
  /\ calls < MaxCalls
  /\ \E has_retriever \in BOOLEAN, n \in 0..MaxSnippets, up \in BOOLEAN :
        /\ (~has_retriever => n = 0 /\ up)
        /\ (n = 0 => up)
        /\ (~up => outages < MaxOutages)
        /\ Apply(prepare_quiz(state, db, has_retriever, n, up), up)

Advance ==
  /\ calls < MaxCalls
  /\ \E correct \in BOOLEAN, concept_name \in Concepts \cup {""}, up \in BOOLEAN :
        /\ (~up => outages < MaxOutages)
        /\ (state.snippets = <<>> => up)
        /\ Apply(advance_quiz(state, db, correct, concept_name, up), up)

RecordPerformance ==
  /\ calls < MaxCalls
  /\ \E in \in RecordInputs, concept_name \in Concepts :
        LET r == record_performance(state, in.score, in.response_time_ms,
                                    in.hints_used, concept_name, in.question_type,
                                    db.mastery, TRUE)
        IN Apply([state |-> r.state, db |-> db, resp |-> r.resp], TRUE)

SetDifficultyLevel ==
  /\ calls < MaxCalls
  /\ \E level \in LevelInputs :
        LET r == set_difficulty_level(state, level)
        IN Apply([state |-> r.state, db |-> db, resp |-> r.resp], TRUE)

GetQuizStep ==
  /\ calls < MaxCalls
  /\ Apply([state |-> state, db |-> db, resp |-> get_quiz_step(state)], TRUE)

RevealContext ==
  /\ calls < MaxCalls
  /\ Apply([state |-> state, db |-> db, resp |-> reveal_context(state)], TRUE)

GetDifficultyLevel ==
  /\ calls < MaxCalls
  /\ Apply([state |-> state, db |-> db, resp |-> get_difficulty_level(state)], TRUE)

GetScaffolding ==
  /\ calls < MaxCalls
  /\ LET r == get_scaffolding(state)
     IN Apply([state |-> state, db |-> db,
               resp |-> [op |-> "get_scaffolding", status |-> r.status,
                         scaffolding_active |-> r.scaffolding_active,
                         struggle_area |-> r.struggle_area, hints |-> r.hints]],
              TRUE)

Next ==
  \/ GetScaffolding
  \/ Prepare
  \/ Advance
  \/ RecordPerformance
  \/ SetDifficultyLevel
  \/ GetQuizStep
  \/ RevealContext
  \/ GetDifficultyLevel

Spec == Init /\ [][Next]_vars

(***************************************************************************)
(* Long sessions: one quiz, answered through advance on one concept or     *)
(* recorded directly, far enough for the history to fill up.               *)
(***************************************************************************)
LongPrepare ==
  /\ calls < MaxLongCalls
  /\ state.snippets = <<>>
  /\ Apply(prepare_quiz(state, db, TRUE, MaxSnippets, TRUE), TRUE)

LongAdvance ==
  /\ calls < MaxLongCalls
  /\ state.snippets # <<>>
  /\ \E correct \in BOOLEAN :
        Apply(advance_quiz(state, db, correct, "c1", TRUE), TRUE)

LongRecord ==
  /\ calls < MaxLongCalls
  /\ LET r == record_performance(state, 70, 0, 1, "c1", "definition", db.mastery, TRUE)
     IN Apply([state |-> r.state, db |-> db, resp |-> r.resp], TRUE)

LongLevels == {1, 5}

LongSetLevel ==
  /\ calls < MaxLongCalls
  /\ resp.op = "prepare"
  /\ \E level \in LongLevels :
        LET r == set_difficulty_level(state, level)
        IN Apply([state |-> r.state, db |-> db, resp |-> r.resp], TRUE)

LongNext == LongPrepare \/ LongAdvance \/ LongRecord \/ LongSetLevel

LongSpec == Init /\ [][LongNext]_vars

(***************************************************************************)
(* Two learners, each with a session of their own.  storage.py keeps one   *)
(* StorageService per user_id, each on the file DATA_DIR/<user_id>.db;     *)
(* here db maps a file to its tables, state maps a user to the session     *)
(* state of that user's tool context, and adj_args keeps each user's       *)
(* calls in the order they were made.                                      *)
(***************************************************************************)
Users == {"u1", "u2"}

MaxUserCalls == 3

db_path_shared(user_id) == "u1"

db_path(user_id) == user_id

get_storage(files, user_id) == files[db_path(user_id)]

TwoInit ==
  /\ state = [u \in Users |-> EmptyState]
  /\ db = [f \in Users |-> EmptyDb]
  /\ resp = NoResp
  /\ calls = 0
  /\ outages = 0
  /\ adj_args = [u \in Users |-> <<>>]
  /\ adj_ret = NoRet

TwoApply(u, call, result) ==
  /\ Len(adj_args[u]) < MaxUserCalls
  /\ state' = [state EXCEPT ![u] = result.state]
  /\ db' = [db EXCEPT ![db_path(u)] = result.db]
  /\ resp' = result.resp
  /\ calls' = calls + 1
  /\ adj_args' = [adj_args EXCEPT ![u] = Append(@, call)]
  /\ UNCHANGED <<outages, adj_ret>>

TwoPrepare ==
  \E u \in Users :
    TwoApply(u, [op |-> "prepare", correct |-> FALSE],
             prepare_quiz(state[u], get_storage(db, u), TRUE, MaxSnippets, TRUE))

TwoAdvance ==
  \E u \in Users, correct \in BOOLEAN :
    TwoApply(u, [op |-> "advance", correct |-> correct],
             advance_quiz(state[u], get_storage(db, u), correct, "c1", TRUE))

TwoSetLevel ==
  \E u \in Users :
    LET r == set_difficulty_level(state[u], MAX_LEVEL)
    IN TwoApply(u, [op |-> "set_difficulty_level", correct |-> FALSE],
                [state |-> r.state, db |-> get_storage(db, u), resp |-> r.resp])

TwoNext == TwoPrepare \/ TwoAdvance \/ TwoSetLevel

TwoSpec == TwoInit /\ [][TwoNext]_vars

(***************************************************************************)
(* One learner working through quizzes, with the learner's correct answers *)
(* kept coming: a correct advance on an unfinished quiz is always          *)
(* possible and is taken if it stays possible; every other call draws on   *)
(* a budget of MaxLiveCalls.                                               *)
(***************************************************************************)
MaxLiveCalls == 4

QuizDone(st) == st.snippets # <<>> /\ IsDone(st.index, Len(st.snippets))

LivePrepare ==
  /\ calls < MaxLiveCalls
  /\ \E n \in 1..MaxSnippets : Apply(prepare_quiz(state, db, TRUE, n, TRUE), TRUE)

CorrectAdvancePossible ==
  /\ state.snippets # <<>>
  /\ ~QuizDone(state) \/ calls < MaxLiveCalls

LiveAdvanceCorrect ==
  /\ CorrectAdvancePossible
  /\ Apply(advance_quiz(state, db, TRUE, "c1", TRUE), TRUE)

LiveAdvanceIncorrect ==
  /\ calls < MaxLiveCalls
  /\ state.snippets # <<>>
  /\ Apply(advance_quiz(state, db, FALSE, "c1", TRUE), TRUE)

LiveGetQuizStep ==
  /\ calls < MaxLiveCalls
  /\ Apply([state |-> state, db |-> db, resp |-> get_quiz_step(state)], TRUE)

LiveRevealContext ==
  /\ calls < MaxLiveCalls
  /\ Apply([state |-> state, db |-> db, resp |-> reveal_context(state)], TRUE)

LiveNext ==
  \/ LivePrepare
  \/ LiveAdvanceCorrect
  \/ LiveAdvanceIncorrect
  \/ LiveGetQuizStep
  \/ LiveRevealContext

CorrectAdvanceTaken ==
  /\ calls' = calls + 1
  /\ resp'.op = "advance"
  /\ resp'.status = "success"
  /\ resp'.args.correct

(***************************************************************************)
(* Weak fairness of the learner's correct answers, WF_vars of              *)
(* LiveAdvanceCorrect, written out: the action is enabled exactly when     *)
(* CorrectAdvancePossible holds and its steps are the CorrectAdvanceTaken  *)
(* steps.                                                                  *)
(***************************************************************************)
LiveFairness == []<>(~CorrectAdvancePossible) \/ []<><<CorrectAdvanceTaken>>_vars

LiveSpec == Init /\ [][LiveNext]_vars /\ LiveFairness

(***************************************************************************)
(* The adjustment rule as a function of its inputs: Init draws them, the   *)
(* one action applies the function.                                        *)
(***************************************************************************)
AdjScores == {0, 29, 50, 60, 85, 95}

AdjHints == {0, 1}

AdjRecords == [score : AdjScores, hints_used : AdjHints]

RECURSIVE SeqsUpTo(_, _)
SeqsUpTo(S, n) ==
  IF n = 0 THEN {<<>>}
  ELSE LET shorter == SeqsUpTo(S, n - 1)
       IN shorter \cup {Append(s, x) : s \in {t \in shorter : Len(t) = n - 1}, x \in S}

AdjMastery ==
  {[c \in {} |-> NoRow]} \cup
  {[c \in Concepts |-> [times_seen |-> 1, times_correct |-> 0,
                        mastery_level |-> Ratio(0, 1), complexity |-> k]] :
      k \in 1..5}

AdjInit ==
  /\ state = EmptyState
  /\ resp = NoResp
  /\ calls = 0
  /\ outages = 0
  /\ \E m \in AdjMastery : db = [EmptyDb EXCEPT !.mastery = m]
  /\ \E l \in Levels, rs \in SeqsUpTo(AdjRecords, MaxRecords), cn \in Concepts \cup {""} :
        /\ (cn = "" => db.mastery = [c \in {} |-> NoRow])
        /\ adj_args = [current_level |-> l, records |-> rs, concept_name |-> cn, up |-> TRUE]
  /\ adj_ret = NoRet

AdjCall ==
  /\ adj_ret = NoRet
  /\ adj_ret' = calculate_difficulty_adjustment(adj_args.current_level, adj_args.records,
                                                adj_args.concept_name, db.mastery, adj_args.up)
  /\ UNCHANGED <<state, db, resp, calls, outages, adj_args>>

AdjNext == AdjCall

AdjSpec == AdjInit /\ [][AdjNext]_vars

(***************************************************************************)
(* The mastery table on its own: update_mastery calls for a few concepts,  *)
(* logged in adj_args, and get_weak_concepts queries.                      *)
(***************************************************************************)
StoreConcepts == {"c1", "c2", "c3"}

StoreThresholds == {0, 50, 67, 100}

StoreInit ==
  /\ state = EmptyState
  /\ db = EmptyDb
  /\ resp = NoResp
  /\ calls = 0
  /\ outages = 0
  /\ adj_args = <<>>
  /\ adj_ret = NoRet

StoreUpdateMastery ==
  /\ calls < MaxStoreCalls
  /\ \E concept_name \in StoreConcepts, correct \in BOOLEAN :
        /\ db' = update_mastery(db, concept_name, correct)
        /\ adj_args' = Append(adj_args, [concept_name |-> concept_name,
                                         correct |-> correct])
        /\ resp' = [op |-> "update_mastery", status |-> "success"]
  /\ calls' = calls + 1
  /\ UNCHANGED <<state, outages, adj_ret>>

StoreGetWeakConcepts ==
  /\ \E threshold \in StoreThresholds :
        \E rows \in get_weak_concepts(db, threshold) :
           resp' = [op |-> "get_weak_concepts", status |-> "success",
                    args |-> [threshold |-> threshold], rows |-> rows]
  /\ UNCHANGED <<state, db, calls, outages, adj_args, adj_ret>>

StoreNext == StoreUpdateMastery \/ StoreGetWeakConcepts

StoreSpec == StoreInit /\ [][StoreNext]_vars

(***************************************************************************)
(* detect_struggle_area as a function of its input: Init draws the list of *)
(* errors, with a question type of every area, one the table does not map  *)
(* and a missing one (read as ""); the one action performs the call.       *)
(***************************************************************************)
AreaQuestionTypes ==
  {"true_false", "problem_solving", "comparison", "scenario", "quiz_question", ""}

AreaErrors == {[question_type |-> t, score |-> 40, concept |-> "c1"] : t \in AreaQuestionTypes}

NoArea == [returned |-> FALSE, area |-> "none"]

AreaInit ==
  /\ state = EmptyState
  /\ db = EmptyDb
  /\ resp = NoResp
  /\ calls = 0
  /\ outages = 0
  /\ \E es \in SeqsUpTo(AreaErrors, MaxErrors) : adj_args = [recent_errors |-> es]
  /\ adj_ret = NoArea

AreaCall ==
  /\ adj_ret = NoArea
  /\ adj_ret' = [returned |-> TRUE, area |-> detect_struggle_area(adj_args.recent_errors)]
  /\ UNCHANGED <<state, db, resp, calls, outages, adj_args>>

AreaNext == AreaCall

AreaSpec == AreaInit /\ [][AreaNext]_vars

(***************************************************************************)
(* calculate_performance_trend as a function of its inputs: Init draws the *)
(* newest-first record list and the window size (5 is the default and the  *)
(* caller's value, 3 the tests'); the one action performs the call.        *)
(***************************************************************************)
TrendScores == {0, 40, 70, 100}

TrendRecords == {[score |-> x, response_time_ms |-> 0, hints_used |-> 0] : x \in TrendScores}

TrendWindows == {3, 5}

NoTrend == [returned |-> FALSE]

TrendInit ==
  /\ state = EmptyState
  /\ db = EmptyDb
  /\ resp = NoResp
  /\ calls = 0
  /\ outages = 0
  /\ \E rs \in SeqsUpTo(TrendRecords, MaxTrendRecords), w \in TrendWindows :
        adj_args = [records |-> rs, window_size |-> w]
  /\ adj_ret = NoTrend

TrendCall ==
  /\ adj_ret = NoTrend
  /\ adj_ret' = [returned |-> TRUE,
                  trend |-> calculate_performance_trend(adj_args.records,
                                                        adj_args.window_size)]
  /\ UNCHANGED <<state, db, resp, calls, outages, adj_args>>

TrendNext == TrendCall

TrendSpec == TrendInit /\ [][TrendNext]_vars

(***************************************************************************)
(* The complexity lookup as a function of its inputs: Init draws the       *)
(* concept_mastery table (no row, a NULL complexity or a stored 1..5 for   *)
(* each concept), the concept asked for and whether the lookup raises; the *)
(* one action performs the call.                                           *)
(***************************************************************************)
CplxConcepts == {"c1", "c2"}

CplxRows ==
  {[times_seen |-> n, times_correct |-> 0, mastery_level |-> Ratio(0, 1),
    complexity |-> k] :
      n \in 0..1, k \in {Null} \cup 1..5}

CplxMastery == UNION {[S -> CplxRows] : S \in SUBSET CplxConcepts}

NoLookup == [returned |-> FALSE, complexity |-> Null]

CplxInit ==
  /\ state = EmptyState
  /\ resp = NoResp
  /\ calls = 0
  /\ outages = 0
  /\ \E m \in CplxMastery : db = [EmptyDb EXCEPT !.mastery = m]
  /\ \E cn \in CplxConcepts, up \in BOOLEAN :
        adj_args = [concept_name |-> cn, up |-> up]
  /\ adj_ret = NoLookup

CplxCall ==
  /\ adj_ret = NoLookup
  /\ adj_ret' = [returned |-> TRUE,
                  complexity |-> get_concept_complexity(db.mastery,
                                                        adj_args.concept_name,
                                                        adj_args.up)]
  /\ UNCHANGED <<state, db, resp, calls, outages, adj_args>>

CplxNext == CplxCall

CplxSpec == CplxInit /\ [][CplxNext]_vars

(***************************************************************************)
(* Vocabulary of the statements about one call of the adjustment rule.     *)
(***************************************************************************)
AdjReturned == adj_ret # NoRet

CallLevel == adj_args.current_level

CallRecords == adj_args.records

CallComplexity ==
  IF adj_args.concept_name = "" \/ adj_args.concept_name \notin DOMAIN db.mastery
  THEN 3
  ELSE db.mastery[adj_args.concept_name].complexity

StatedIncreaseThreshold(c) == IF 85 * c < 285 THEN 85 * c ELSE 285

StatedDecreaseThreshold(c) == IF 50 * c > 90 THEN 50 * c ELSE 90

Top3Qualify ==
  /\ Len(CallRecords) >= 3
  /\ \A i \in 1..3 :
        /\ 3 * CallRecords[i].score >= StatedIncreaseThreshold(CallComplexity)
        /\ CallRecords[i].hints_used = 0

Top2Low ==
  /\ Len(CallRecords) >= 2
  /\ \A i \in 1..2 : 3 * CallRecords[i].score < StatedDecreaseThreshold(CallComplexity)

(* C3: for every current level in 1..6, record list and complexity in 1..5 *)
(* the result has previous_level = current_level, new_level in 1..6 at     *)
(* most one step away, and the type names the direction of the step:       *)
(* increase iff +1, decrease iff -1, maintain iff unchanged.               *)
C3_ResultShape ==
  AdjReturned =>
    /\ adj_ret.previous_level = CallLevel
    /\ adj_ret.new_level \in 1..6
    /\ adj_ret.new_level - CallLevel \in {-1, 0, 1}
    /\ adj_ret.adjustment_type \in {"increase", "decrease", "maintain"}
    /\ (adj_ret.adjustment_type = "increase" <=> adj_ret.new_level = CallLevel + 1)
    /\ (adj_ret.adjustment_type = "decrease" <=> adj_ret.new_level = CallLevel - 1)
    /\ (adj_ret.adjustment_type = "maintain" <=> adj_ret.new_level = CallLevel)

C3_Witness ==
  /\ AdjReturned
  /\ CallLevel = 6
  /\ Top3Qualify
  /\ adj_ret.new_level = 6

(* C4: the type is increase iff the level is below 6, there are at least 3 *)
(* records and the 3 most recent all reach the increase threshold with no  *)
(* hint; then new_level = current_level + 1 and no scaffolding.            *)
C4_IncreaseIff ==
  AdjReturned =>
    /\ (adj_ret.adjustment_type = "increase" <=> (CallLevel < 6 /\ Top3Qualify))
    /\ (adj_ret.adjustment_type = "increase" =>
          /\ adj_ret.new_level = CallLevel + 1
          /\ ~adj_ret.scaffolding_recommended)

C4_Witness ==
  /\ AdjReturned
  /\ Len(CallRecords) >= 3
  /\ \A i \in 1..3 : 3 * CallRecords[i].score >= StatedIncreaseThreshold(CallComplexity)
  /\ \E i \in 1..3 : CallRecords[i].hints_used = 1
  /\ CallLevel < 6
  /\ adj_ret.adjustment_type # "increase"

(* C5: the type is decrease iff the level is above 1, there are at least 2 *)
(* records, the increase condition does not hold and the 2 most recent     *)
(* scores are both below the decrease threshold; then new_level =          *)
(* current_level - 1.  Scaffolding is recommended exactly on a decrease,   *)
(* and fewer than 2 records always maintain the level.                     *)
C5_DecreaseIff ==
  AdjReturned =>
    /\ (adj_ret.adjustment_type = "decrease" <=>
          (CallLevel > 1 /\ ~Top3Qualify /\ Top2Low))
    /\ (adj_ret.adjustment_type = "decrease" => adj_ret.new_level = CallLevel - 1)
    /\ (adj_ret.scaffolding_recommended <=> adj_ret.adjustment_type = "decrease")
    /\ (Len(CallRecords) < 2 =>
          adj_ret.adjustment_type = "maintain" /\ adj_ret.new_level = CallLevel)

C5_Witness ==
  /\ AdjReturned
  /\ adj_ret.adjustment_type = "decrease"
  /\ adj_ret.scaffolding_recommended
  /\ adj_ret.new_level = CallLevel - 1
  /\ CallComplexity = 1
  /\ \E i \in 1..2 : CallRecords[i].score = 29

(* C6 as stated: at level 6 a window satisfying the increase condition     *)
(* gives new_level 6 and maintain; at level 1 a window satisfying the      *)
(* decrease condition gives new_level 1, maintain and no scaffolding.      *)
C6_Saturation ==
  AdjReturned =>
    /\ (CallLevel = 6 /\ Top3Qualify =>
          adj_ret.new_level = 6 /\ adj_ret.adjustment_type = "maintain")
    /\ (CallLevel = 1 /\ Top2Low =>
          /\ adj_ret.new_level = 1
          /\ adj_ret.adjustment_type = "maintain"
          /\ ~adj_ret.scaffolding_recommended)

(* C6 amended: the same, the level-1 case for a window that satisfies the  *)
(* decrease condition and not the increase condition.                      *)
C6_SaturationAmended ==
  AdjReturned =>
    /\ (CallLevel = 6 /\ Top3Qualify =>
          adj_ret.new_level = 6 /\ adj_ret.adjustment_type = "maintain")
    /\ (CallLevel = 1 /\ Top2Low /\ ~Top3Qualify =>
          /\ adj_ret.new_level = 1
          /\ adj_ret.adjustment_type = "maintain"
          /\ ~adj_ret.scaffolding_recommended)

C6_Witness ==
  /\ AdjReturned
  /\ CallLevel = 1
  /\ Top2Low
  /\ ~Top3Qualify
  /\ adj_ret.reason = "decrease_rule"
  /\ adj_ret.new_level = 1

InZone(r) == 60 <= r.score /\ r.score <= 85

AllInZone ==
  /\ Len(CallRecords) >= 2
  /\ \A i \in 1..Len(CallRecords) : InZone(CallRecords[i])

Top3At85NoHints ==
  /\ Len(CallRecords) >= 3
  /\ \A i \in 1..3 : CallRecords[i].score = 85 /\ CallRecords[i].hints_used = 0

(* C7 as stated: at complexity 3 every window of at least 2 records with   *)
(* all scores in [0.60, 0.85], whatever the hints, maintains the level.    *)
C7_ZoneMaintains ==
  AdjReturned /\ CallComplexity = 3 /\ AllInZone =>
    adj_ret.adjustment_type = "maintain" /\ adj_ret.new_level = CallLevel

(* C7 amended: such a window maintains the level unless the level is below *)
(* 6 and its 3 most recent records all score exactly 0.85 with no hint,    *)
(* which increases the level by one.                                       *)
C7_ZoneMaintainsAmended ==
  AdjReturned /\ CallComplexity = 3 /\ AllInZone =>
    IF CallLevel < 6 /\ Top3At85NoHints
    THEN adj_ret.adjustment_type = "increase" /\ adj_ret.new_level = CallLevel + 1
    ELSE adj_ret.adjustment_type = "maintain" /\ adj_ret.new_level = CallLevel

C7_Witness ==
  /\ AdjReturned
  /\ CallComplexity = 3
  /\ AllInZone
  /\ Len(CallRecords) >= 3
  /\ \A i \in 1..3 : CallRecords[i].score = 85
  /\ \E i \in 1..3 : CallRecords[i].hints_used = 1
  /\ CallLevel < 6
  /\ adj_ret.adjustment_type = "maintain"

(* C8: whenever the 3 most recent records satisfy the increase condition   *)
(* the result is increase or maintain, never decrease, and scaffolding is  *)
(* not recommended, for every complexity, also when the 2 most recent      *)
(* scores are below the decrease threshold too.                            *)
C8_IncreaseFirst ==
  AdjReturned /\ Top3Qualify =>
    /\ adj_ret.adjustment_type \in {"increase", "maintain"}
    /\ ~adj_ret.scaffolding_recommended
    /\ adj_ret.new_level >= CallLevel

C8_Witness ==
  /\ AdjReturned
  /\ Top3Qualify
  /\ Top2Low
  /\ CallLevel > 1
  /\ adj_ret.adjustment_type = "increase"

(* C9: for every complexity c in 1..5 the thresholds in use are            *)
(* min(0.85*c/3, 0.95) and max(0.50*c/3, 0.30), so the increase threshold  *)
(* is at most 0.95 and the decrease threshold at least 0.30: three scores  *)
(* of 0.95 without hints always fire the increase rule.                    *)
C9_Thresholds ==
  AdjReturned =>
    /\ CallComplexity \in 1..5
    /\ increase_threshold(CallComplexity) = StatedIncreaseThreshold(CallComplexity)
    /\ decrease_threshold(CallComplexity) = StatedDecreaseThreshold(CallComplexity)
    /\ increase_threshold(CallComplexity) <= 285
    /\ decrease_threshold(CallComplexity) >= 90
    /\ ((/\ Len(CallRecords) >= 3
         /\ \A i \in 1..3 : CallRecords[i].score >= 95 /\ CallRecords[i].hints_used = 0)
        => adj_ret.reason = "increase_rule")
    /\ ((/\ Len(CallRecords) >= 2
         /\ \E i \in 1..2 : CallRecords[i].score >= 30)
        => adj_ret.reason # "decrease_rule" \/ CallComplexity > 1)

C9_Witness ==
  /\ AdjReturned
  /\ CallComplexity = 5
  /\ Len(CallRecords) >= 3
  /\ \A i \in 1..3 : CallRecords[i].score = 95 /\ CallRecords[i].hints_used = 0
  /\ adj_ret.reason = "increase_rule"

(***************************************************************************)
(* Vocabulary of the statements about the session machine.                 *)
(***************************************************************************)
CallStep == calls' = calls + 1

AnswerStep ==
  /\ CallStep
  /\ resp'.op \in {"record_performance", "advance"}
  /\ resp'.status = "success"

AnswerScoreOf(r) ==
  IF r.op = "advance" THEN (IF r.args.correct THEN 100 ELSE 0) ELSE r.args.score

AnswerConceptOf(r, st) ==
  IF r.op = "advance" /\ r.args.concept_name = "" THEN st.topic ELSE r.args.concept_name

StoredComplexity(concept) ==
  IF concept \in DOMAIN db.mastery /\ db.mastery[concept].complexity # Null
  THEN db.mastery[concept].complexity
  ELSE 3

(* C1: in every state reached by prepare, advance, record_performance and  *)
(* set_difficulty_level calls (with any integer) the session's difficulty  *)
(* level is an integer in 1..6.                                            *)
C1_LevelInRange ==
  /\ state.level \in (1..6) \cup {Absent}
  /\ (IF state.level = Absent THEN 3 ELSE state.level) \in 1..6
  /\ (resp.op = "set_difficulty_level" => state.level \in 1..6)

C1_Witness ==
  /\ resp.op = "set_difficulty_level"
  /\ resp.args.level = 7
  /\ state.level = 6
  /\ state.history # <<>>

(* C2: every record_performance call (also the one inside advance) leaves  *)
(* a history of length min(previous length + 1, 10) whose first element is *)
(* the record of that call and whose other elements are the previous       *)
(* history in order, the oldest dropped when it was full.                  *)
C2_HistoryNewestFirst ==
  [][AnswerStep =>
       /\ Len(state'.history) = (IF Len(state.history) + 1 < 10
                                 THEN Len(state.history) + 1 ELSE 10)
       /\ state'.history[1].score = AnswerScoreOf(resp')
       /\ state'.history[1].concept_tested = AnswerConceptOf(resp', state)
       /\ state'.history[1].difficulty_level =
             (IF state.level = Absent THEN 3 ELSE state.level)
       /\ (resp'.op = "record_performance" =>
             /\ state'.history[1].hints_used = resp'.args.hints_used
             /\ state'.history[1].question_type = resp'.args.question_type
             /\ state'.history[1].response_time_ms = resp'.args.response_time_ms)
       /\ (resp'.op = "advance" =>
             /\ state'.history[1].hints_used = 0
             /\ state'.history[1].question_type = "quiz_question")
       /\ \A i \in 2..Len(state'.history) : state'.history[i] = state.history[i - 1]
  ]_vars

C2_Witness ==
  /\ state.snippets = <<>>
  /\ resp.op = "record_performance"
  /\ calls = 11
  /\ Len(state.history) = 10

FailingResp(r) ==
  \/ r.op = "advance" /\ r.status = "success" /\ ~r.args.correct
  \/ /\ r.op = "record_performance"
     /\ 3 * r.args.score < StatedDecreaseThreshold(StoredComplexity(r.args.concept_name))

FailingRecord(rec) ==
  3 * rec.score < StatedDecreaseThreshold(StoredComplexity(rec.concept_tested))

(* C10: in a freshly prepared session at level L in 2..6 with empty        *)
(* history the first failing answer leaves the level at L and scaffolding  *)
(* off; the second consecutive failing answer sets the level to L - 1 and  *)
(* scaffolding on, and the advance response for it reports adjusted and    *)
(* carries a scaffolding bundle with a struggle area and hints.            *)
C10_TwoFailuresDecrease ==
  [][(CallStep /\ FailingResp(resp') /\ state.snippets # <<>> /\ state.level \in 2..6) =>
       /\ (state.history = <<>> =>
             /\ state'.level = state.level
             /\ ~state'.scaffolding_active
             /\ (resp'.op = "advance" =>
                   ~resp'.difficulty.adjusted /\ resp'.scaffolding = NoBundle))
       /\ (Len(state.history) = 1 /\ FailingRecord(state.history[1]) =>
             /\ state'.level = state.level - 1
             /\ state'.scaffolding_active
             /\ (resp'.op = "advance" =>
                   /\ resp'.difficulty.adjusted
                   /\ resp'.difficulty.scaffolding_active
                   /\ resp'.difficulty.current_level = state.level - 1
                   /\ resp'.scaffolding.struggle_area \in
                         {"definition", "process", "relationship", "application"}
                   /\ resp'.scaffolding.hints.strategy = resp'.scaffolding.struggle_area))
  ]_vars

C10_Witness ==
  /\ resp.op = "advance"
  /\ resp.status = "success"
  /\ ~resp.args.correct
  /\ resp.difficulty.adjusted
  /\ resp.scaffolding.struggle_area = "definition"
  /\ Len(state.history) = 2
  /\ state.history[2].question_type = "comparison"
  /\ state.level = 2
  /\ state.scaffolding_active

(***************************************************************************)
(* C11: from a freshly prepared session at level L with an empty history   *)
(* and default complexity, after k consecutive answers scoring 0.85 or     *)
(* more without a hint (k advances with correct = TRUE and nothing else)   *)
(* the level is min(6, L + max(0, k - 2)) and scaffolding is inactive: the *)
(* first increase comes with the third answer and every further answer     *)
(* raises the level again, the history being kept across level changes.    *)
(* The quiz counters identify the run: k correct answers, no mistake, and  *)
(* a streak of exactly k answers; L is the level the oldest record of the  *)
(* history was answered at.                                                *)
(***************************************************************************)
StreakLength == state.correct

OnlyCorrectAdvances ==
  /\ state.snippets # <<>>
  /\ state.correct >= 1
  /\ state.total_mistakes = 0
  /\ state.consecutive_correct = state.correct

C11_StreakRaises ==
  OnlyCorrectAdvances =>
    /\ Len(state.history) = Min(StreakLength, HISTORY_CAP)
    /\ \A i \in 1..Len(state.history) :
          state.history[i].score >= 85 /\ state.history[i].hints_used = 0
    /\ StreakLength <= HISTORY_CAP =>
          state.level = Min(MAX_LEVEL,
                            state.history[StreakLength].difficulty_level
                              + Max(0, StreakLength - 2))
    /\ StreakLength > HISTORY_CAP => state.level = MAX_LEVEL
    /\ ~state.scaffolding_active

C11_Witness ==
  /\ OnlyCorrectAdvances
  /\ StreakLength = 6
  /\ state.history[6].difficulty_level = 1
  /\ state.history[2].difficulty_level = 3
  /\ state.level = 5

(***************************************************************************)
(* C12: a prepare that finds at least one non-empty snippet returns        *)
(* success and, whatever the session state was, sets index, mistakes,      *)
(* total mistakes and correct to 0, empties the question details and the   *)
(* history, clears the scaffolding flag, the hint counter and both         *)
(* streaks, and sets the level to the new_level of the most recent         *)
(* persisted adjustment, or to 3 when there is none or storage fails.      *)
(***************************************************************************)
PrepareStep == CallStep /\ resp'.op = "prepare"

LastPersistedLevel(d) ==
  IF d.difficulty_history = <<>> THEN DEFAULT_LEVEL
  ELSE d.difficulty_history[Len(d.difficulty_history)].new_level

C12_PrepareResets ==
  [][PrepareStep /\ resp'.args.has_retriever /\ resp'.args.n >= 1 =>
       /\ resp'.status = "success"
       /\ Len(state'.snippets) = resp'.args.n
       /\ state'.index = 0
       /\ state'.mistakes = 0
       /\ state'.total_mistakes = 0
       /\ state'.correct = 0
       /\ state'.question_details = <<>>
       /\ state'.history = <<>>
       /\ ~state'.scaffolding_active
       /\ state'.hints_used_current = 0
       /\ state'.consecutive_correct = 0
       /\ state'.consecutive_incorrect = 0
       /\ state'.level = IF resp'.args.up THEN LastPersistedLevel(db)
                         ELSE DEFAULT_LEVEL]_vars

C12_Witness ==
  /\ resp.op = "prepare"
  /\ resp.status = "success"
  /\ Len(db.quiz_results) = 2
  /\ db.difficulty_history # <<>>
  /\ state.level = 2
  /\ state.history = <<>>

(***************************************************************************)
(* C13: with working storage, a prepare that follows an earlier quiz       *)
(* starts at the level the session had at the end of that quiz, and at 3   *)
(* for a user with no earlier quiz, whatever prepare, advance and          *)
(* set_difficulty_level calls the earlier sessions made.  Storage has      *)
(* worked throughout when no outage was counted; the answers of the        *)
(* earlier quiz were given through advance when its history holds quiz     *)
(* questions only.                                                         *)
(***************************************************************************)
AnsweredThroughAdvance(st) ==
  \A i \in 1..Len(st.history) : st.history[i].question_type = QUESTION_TYPE

C13_ResumesEndLevel ==
  [][PrepareStep /\ resp'.status = "success" /\ outages' = 0
       /\ AnsweredThroughAdvance(state) =>
       state'.level = IF state.snippets # <<>> THEN GetLevel(state)
                      ELSE DEFAULT_LEVEL]_vars

(***************************************************************************)
(* C14: a successful advance(correct = TRUE) raises index and correct by   *)
(* one, sets mistakes to 0, leaves total mistakes unchanged and appends    *)
(* one question detail whose attempts is the prior mistakes + 1; a         *)
(* successful advance(correct = FALSE) leaves index and correct unchanged  *)
(* and raises mistakes and total mistakes by one.                          *)
(***************************************************************************)
AdvanceStep == CallStep /\ resp'.op = "advance" /\ resp'.status = "success"

C14_AdvanceCounters ==
  [][AdvanceStep =>
       IF resp'.args.correct
       THEN /\ state'.index = state.index + 1
            /\ state'.correct = state.correct + 1
            /\ state'.mistakes = 0
            /\ state'.total_mistakes = state.total_mistakes
            /\ Len(state'.question_details) = Len(state.question_details) + 1
            /\ Take(state'.question_details, Len(state.question_details))
                 = state.question_details
            /\ state'.question_details[Len(state'.question_details)].attempts
                 = state.mistakes + 1
       ELSE /\ state'.index = state.index
            /\ state'.correct = state.correct
            /\ state'.mistakes = state.mistakes + 1
            /\ state'.total_mistakes = state.total_mistakes + 1]_vars

C14_Witness ==
  /\ resp.op = "advance"
  /\ resp.status = "success"
  /\ resp.args.correct
  /\ state.index = 1
  /\ state.mistakes = 0
  /\ state.total_mistakes = 2
  /\ state.question_details[1].attempts = 3

(***************************************************************************)
(* C15: a successful advance reports done exactly when the index after the *)
(* call has reached the number of snippets; in a quiz of N snippets done   *)
(* is therefore first reported by the N-th correct advance since prepare,  *)
(* however many incorrect ones came in between (correct and the question   *)
(* details count the correct advances of the quiz).                        *)
(***************************************************************************)
C15_DoneAtLastSnippet ==
  [][AdvanceStep =>
       /\ resp'.done <=> state'.index >= Len(state'.snippets)
       /\ resp'.done <=> state'.correct >= Len(state'.snippets)
       /\ resp'.done <=> Len(state'.question_details) >= Len(state'.snippets)
       /\ ~resp'.args.correct /\ state.index < Len(state.snippets) => ~resp'.done
       /\ resp'.total_questions = Len(state'.snippets)]_vars

C15_Witness ==
  /\ resp.op = "advance"
  /\ resp.status = "success"
  /\ resp.done
  /\ Len(state.snippets) = 2
  /\ state.correct = 2
  /\ state.total_mistakes = 1

(***************************************************************************)
(* C16: on an unprepared session (no snippets and no difficulty level in   *)
(* the state) get_quiz_step, advance, reveal_context and                   *)
(* get_difficulty_level each return status "error" with an error message   *)
(* and leave the session state and the persisted data unchanged.           *)
(***************************************************************************)
Unprepared(st) == st.snippets = <<>> /\ st.level = Absent

NeedsPreparedQuiz ==
  {"get_quiz_step", "advance", "reveal_context", "get_difficulty_level"}

C16_UnpreparedErrors ==
  [][CallStep /\ Unprepared(state) /\ resp'.op \in NeedsPreparedQuiz =>
       /\ resp'.status = "error"
       /\ "error_message" \in DOMAIN resp'
       /\ state' = state
       /\ db' = db]_vars

C16_Witness ==
  /\ resp.op = "get_difficulty_level"
  /\ resp.status = "error"
  /\ Unprepared(state)
  /\ state.history # <<>>

(***************************************************************************)
(* C17: a prepare that fails, because the retriever is missing or because  *)
(* no non-empty snippet was found, returns status "error" with an error    *)
(* message, leaves the session state unchanged (a quiz in progress keeps   *)
(* its snippets, index, counters, level and history) and writes nothing to *)
(* storage.                                                                *)
(***************************************************************************)
C17_FailedPrepareKeepsState ==
  [][PrepareStep /\ (~resp'.args.has_retriever \/ resp'.args.n = 0) =>
       /\ resp'.status = "error"
       /\ "error_message" \in DOMAIN resp'
       /\ state' = state
       /\ db' = db]_vars

C17_Witness ==
  /\ resp.op = "prepare"
  /\ resp.status = "error"
  /\ resp.args.has_retriever
  /\ Len(state.snippets) = 2
  /\ state.index = 1
  /\ state.history # <<>>
  /\ Len(db.quiz_results) = 1

(***************************************************************************)
(* C18: in any prepared state reveal_context returns success with the      *)
(* snippet at 0-based position min(index, N - 1), the last snippet once    *)
(* the quiz is done; neither reveal_context nor get_quiz_step changes the  *)
(* session state or the persisted data.                                    *)
(***************************************************************************)
SnippetAt(st, position) == st.snippets[position + 1]

C18_RevealReadsOnly ==
  [][/\ CallStep /\ state.snippets # <<>> /\ resp'.op = "reveal_context" =>
          /\ resp'.status = "success"
          /\ resp'.context =
               SnippetAt(state, Min(state.index, Len(state.snippets) - 1))
     /\ CallStep /\ resp'.op \in {"reveal_context", "get_quiz_step"} =>
          /\ state' = state
          /\ db' = db]_vars

C18_Witness ==
  /\ resp.op = "reveal_context"
  /\ resp.status = "success"
  /\ Len(state.snippets) = 2
  /\ state.index = 2
  /\ resp.context = SnippetAt(state, 1)

(***************************************************************************)
(* C19: for every prepared state and every answer, an advance made while   *)
(* every storage call raises returns the same response (status success)    *)
(* and leaves the same session state (level, history, scaffolding flag and *)
(* all the rest) as the same advance with working storage; only the        *)
(* persisted data differ, the failing call writing nothing.                *)
(***************************************************************************)
WithWorkingStorage(r) == [r EXCEPT !.args.up = TRUE]

C19_OutageKeepsDecision ==
  [][AdvanceStep /\ ~resp'.args.up =>
       LET working == advance_quiz(state, db, resp'.args.correct,
                                   resp'.args.concept_name, TRUE)
       IN /\ resp'.status = "success"
          /\ WithWorkingStorage(resp') = working.resp
          /\ state' = working.state
          /\ db' = db]_vars

C19_Witness ==
  /\ resp.op = "advance"
  /\ resp.status = "success"
  /\ ~resp.args.up
  /\ resp.difficulty.adjusted
  /\ resp.difficulty.scaffolding_active
  /\ state.level = 2
  /\ db.difficulty_history = <<>>
  /\ Len(db.performance_records) = 1

(***************************************************************************)
(* C20: get_concept_complexity returns 3 when the user has no mastery row  *)
(* for the concept, when the stored complexity is NULL and when the lookup *)
(* raises; otherwise it returns the stored complexity.  A raising lookup   *)
(* still yields a value, so nothing reaches the caller.                    *)
(***************************************************************************)
LookupReturned == adj_ret.returned

LookupRaises == ~adj_args.up

HasRow == adj_args.concept_name \in DOMAIN db.mastery

StoredValue == db.mastery[adj_args.concept_name].complexity

C20_ComplexityDefault ==
  LookupReturned =>
       /\ ~HasRow => adj_ret.complexity = 3
       /\ HasRow /\ StoredValue = Null => adj_ret.complexity = 3
       /\ LookupRaises => adj_ret.complexity = 3
       /\ HasRow /\ StoredValue # Null /\ ~LookupRaises =>
            adj_ret.complexity = StoredValue

C20_Witness ==
  /\ LookupReturned
  /\ ~LookupRaises
  /\ HasRow
  /\ StoredValue = Null
  /\ db.mastery[adj_args.concept_name].times_seen = 1
  /\ adj_ret.complexity = 3

(***************************************************************************)
(* C21: after any sequence of update_mastery calls for one (user, concept) *)
(* times_seen is the number of calls, times_correct the number of calls    *)
(* with correct = TRUE, 0 <= times_correct <= times_seen and mastery_level *)
(* = times_correct / times_seen; n correct updates followed by one         *)
(* incorrect update give n / (n + 1).                                      *)
(***************************************************************************)
RECURSIVE CountCalls(_, _, _)
CountCalls(log, concept_name, only_correct) ==
  IF log = <<>> THEN 0
  ELSE CountCalls(Tail(log), concept_name, only_correct)
       + (IF /\ Head(log).concept_name = concept_name
             /\ (only_correct => Head(log).correct)
          THEN 1 ELSE 0)

SameQuotient(mastery_level, n, d) == mastery_level.num * d = n * mastery_level.den

WeakReturned == resp.op = "get_weak_concepts" /\ resp.status = "success"

StrictlyBelow(c, threshold) ==
  100 * db.mastery[c].mastery_level.num < threshold * db.mastery[c].mastery_level.den

C22_WeakConcepts ==
  WeakReturned =>
    LET rows == resp.rows
        n == Len(rows)
    IN /\ {rows[i].concept_name : i \in 1..n}
            = {c \in DOMAIN db.mastery : StrictlyBelow(c, resp.args.threshold)}
       /\ \A i, j \in 1..n : rows[i].concept_name = rows[j].concept_name => i = j
       /\ \A i \in 1..n : rows[i].mastery_level = db.mastery[rows[i].concept_name].mastery_level
       /\ \A i \in 1..n - 1 :
             rows[i].mastery_level.num * rows[i + 1].mastery_level.den
               <= rows[i + 1].mastery_level.num * rows[i].mastery_level.den

C22_Witness ==
  /\ WeakReturned
  /\ resp.args.threshold = 50
  /\ DOMAIN db.mastery = StoreConcepts
  /\ db.mastery["c1"].mastery_level = [num |-> 1, den |-> 2]
  /\ Len(resp.rows) = 2
  /\ \A i \in 1..2 : resp.rows[i].concept_name # "c1"

(***************************************************************************)
(* C23: with working storage an advance appends exactly one entry to the   *)
(* adjustment-history log when it changed the difficulty level and none    *)
(* when the adjustment type is "maintain"; the entry's previous_level and  *)
(* new_level are the session level before and after that answer; no       *)
(* operation ever modifies or removes an existing log entry.               *)
(***************************************************************************)
AdjustmentLog(d) == d.difficulty_history

C23_AdjustmentLog ==
  [][/\ Take(AdjustmentLog(db'), Len(AdjustmentLog(db))) = AdjustmentLog(db)
     /\ AdvanceStep /\ resp'.args.up =>
          LET before == GetLevel(state)
              after == GetLevel(state')
              added == Len(AdjustmentLog(db')) - Len(AdjustmentLog(db))
          IN /\ (state'.last_adjustment.type = "maintain") <=> (after = before)
             /\ after = before => added = 0
             /\ after # before =>
                  /\ added = 1
                  /\ AdjustmentLog(db')[Len(AdjustmentLog(db'))].previous_level = before
                  /\ AdjustmentLog(db')[Len(AdjustmentLog(db'))].new_level = after]_vars

C23_Witness ==
  /\ resp.op = "advance"
  /\ resp.status = "success"
  /\ resp.args.up
  /\ Len(AdjustmentLog(db)) = 2
  /\ AdjustmentLog(db)[1].previous_level = 3
  /\ AdjustmentLog(db)[2].previous_level = 2
  /\ AdjustmentLog(db)[2].new_level = 1
  /\ state.level = 1

(***************************************************************************)
(* C24: with working storage, after n advances since prepare the persisted *)
(* performance log holds n records for the quiz, one per answer, none ever *)
(* removed or overwritten, while the session history holds only the        *)
(* min(n, 10) most recent of them.  n is the number of correct plus        *)
(* incorrect advances the quiz counters show; the history holds answers    *)
(* given through advance when it holds quiz questions only.                *)
(***************************************************************************)
PerformanceLog(d) == d.performance_records

AdvancesSincePrepare(st) == st.correct + st.total_mistakes

LogOfQuiz(d, quiz_id) ==
  SelectSeq(PerformanceLog(d), LAMBDA rec : rec.quiz_id = quiz_id)

HistoryIsTailOfLog ==
  state.snippets # <<>> /\ AnsweredThroughAdvance(state) =>
    LET n == AdvancesSincePrepare(state)
        log == LogOfQuiz(db, state.db_id)
    IN /\ Len(log) = n
       /\ Len(state.history) = Min(n, HISTORY_CAP)
       /\ \A i \in 1..Len(state.history) :
             /\ state.history[i].score = log[n - i + 1].score
             /\ state.history[i].concept_tested = log[n - i + 1].concept_tested
             /\ state.history[i].question_type = log[n - i + 1].question_type

C24_LogKeepsAll ==
  [][/\ Take(PerformanceLog(db'), Len(PerformanceLog(db))) = PerformanceLog(db)
     /\ HistoryIsTailOfLog']_vars

C24_Witness ==
  /\ state.snippets # <<>>
  /\ AnsweredThroughAdvance(state)
  /\ AdvancesSincePrepare(state) = 11
  /\ Len(LogOfQuiz(db, state.db_id)) = 11
  /\ Len(state.history) = 10
  /\ state.history[10].score = 0
  /\ PerformanceLog(db)[1].score = 100

(***************************************************************************)
(* C25: set_difficulty_level(level), for any integer level, sets the       *)
(* session level to max(1, min(6, level)), returns success with            *)
(* previous_level the level before the call (3 if none was set), resets    *)
(* the hint counter to 0 and leaves the history, the scaffolding flag, the *)
(* streaks, the last-adjustment snapshot and the quiz counters unchanged.  *)
(***************************************************************************)
SetLevelStep == CallStep /\ resp'.op = "set_difficulty_level"

StatedClamp(level) == IF level < 1 THEN 1 ELSE IF level > 6 THEN 6 ELSE level

C25_SetLevelFrame ==
  [][SetLevelStep =>
       /\ resp'.status = "success"
       /\ state'.level = StatedClamp(resp'.args.level)
       /\ resp'.new_level = StatedClamp(resp'.args.level)
       /\ resp'.previous_level = IF state.level = Absent THEN 3 ELSE state.level
       /\ state'.hints_used_current = 0
       /\ state' = [state EXCEPT !.level = state'.level, !.hints_used_current = 0]
       /\ db' = db]_vars

C25_Witness ==
  /\ resp.op = "set_difficulty_level"
  /\ resp.args.level = 7
  /\ resp.previous_level = 2
  /\ state.level = 6
  /\ state.scaffolding_active
  /\ Len(state.history) = 2
  /\ state.consecutive_incorrect = 2
  /\ state.total_mistakes = 2

(***************************************************************************)
(* C26: detect_struggle_area counts every error under exactly one area,    *)
(* the table's area for its question type and "definition" for an unmapped *)
(* or missing type, and returns an area with the maximal count, ties going *)
(* to the first of definition, process, relationship, application; an      *)
(* empty input returns "definition".                                       *)
(***************************************************************************)
StatedArea(question_type) ==
  IF question_type \in {"problem_solving", "breakdown"} THEN "process"
  ELSE IF question_type \in {"comparison", "cause_effect", "pattern_recognition"}
       THEN "relationship"
  ELSE IF question_type \in {"scenario", "case_study", "design", "integration"}
       THEN "application"
  ELSE "definition"

RECURSIVE StatedCount(_, _)
StatedCount(errors, area) ==
  IF errors = <<>> THEN 0
  ELSE StatedCount(Tail(errors), area)
       + (IF StatedArea(Head(errors).question_type) = area THEN 1 ELSE 0)

AreaRank(area) == CHOOSE i \in 1..4 : Areas[i] = area

C26_StruggleArea ==
  adj_ret.returned =>
    LET errors == adj_args.recent_errors
        area == adj_ret.area
    IN /\ \E i \in 1..4 : Areas[i] = area
       /\ StatedCount(errors, "definition") + StatedCount(errors, "process")
            + StatedCount(errors, "relationship") + StatedCount(errors, "application")
            = Len(errors)
       /\ \A i \in 1..4 : StatedCount(errors, Areas[i]) <= StatedCount(errors, area)
       /\ \A i \in 1..4 :
             StatedCount(errors, Areas[i]) = StatedCount(errors, area) =>
                AreaRank(area) <= i
       /\ errors = <<>> => area = "definition"

C26_Witness ==
  /\ adj_ret.returned
  /\ Len(adj_args.recent_errors) = 4
  /\ StatedCount(adj_args.recent_errors, "process") = 2
  /\ StatedCount(adj_args.recent_errors, "application") = 2
  /\ adj_ret.area = "process"

(***************************************************************************)
(* C27: get_scaffolding with the scaffolding flag off returns success with *)
(* scaffolding_active false and no hints; with the flag on it derives the  *)
(* struggle area only from those of the 3 most recent history records      *)
(* whose score is below 0.60 and returns that area's hint bundle; in both  *)
(* cases the session state is left unchanged.                              *)
(***************************************************************************)
ScaffoldingStep == CallStep /\ resp'.op = "get_scaffolding"

RecentErrors(st) ==
  SelectSeq(SubSeq(st.history, 1, Min(3, Len(st.history))), LAMBDA rec : rec.score < 60)

IsStruggleAreaOf(area, errors) ==
  /\ \E i \in 1..4 : Areas[i] = area
  /\ \A i \in 1..4 : StatedCount(errors, Areas[i]) <= StatedCount(errors, area)
  /\ \A i \in 1..4 :
        StatedCount(errors, Areas[i]) = StatedCount(errors, area) => AreaRank(area) <= i

C27_ScaffoldingReadsErrors ==
  [][ScaffoldingStep =>
       /\ resp'.status = "success"
       /\ resp'.scaffolding_active = state.scaffolding_active
       /\ ~state.scaffolding_active =>
             resp'.struggle_area = "none" /\ resp'.hints = [strategy |-> "none"]
       /\ state.scaffolding_active =>
             /\ IsStruggleAreaOf(resp'.struggle_area, RecentErrors(state))
             /\ resp'.hints = [strategy |-> resp'.struggle_area]
       /\ state' = state
       /\ db' = db]_vars

C27_Witness ==
  /\ resp.op = "get_scaffolding"
  /\ resp.scaffolding_active
  /\ Len(state.history) = 3
  /\ state.history[1].question_type = "true_false"
  /\ state.history[2].question_type = "comparison"
  /\ state.history[3].question_type = "comparison"
  /\ state.history[3].score = 60
  /\ resp.struggle_area = "definition"

(***************************************************************************)
(* C28: for a non-empty record list calculate_performance_trend uses the   *)
(* first w = min(len, window_size) records and, with mid = floor(w / 2),   *)
(* reports "stable" if w < 2, "improving" if the mean of records[mid:] is  *)
(* more than 0.05 above the mean of records[:mid], "declining" if it is    *)
(* more than 0.05 below, and "stable" otherwise; an empty list gives       *)
(* window_size 0, avg_score 0 and "stable".                                *)
(***************************************************************************)
TrendReturned == adj_ret.returned

StatedWindow == SubSeq(adj_args.records, 1, Min(Len(adj_args.records), adj_args.window_size))

RECURSIVE StatedSum(_, _, _)
StatedSum(records, from, to) ==
  IF from > to THEN 0 ELSE records[from].score + StatedSum(records, from + 1, to)

StatedTrend(window) ==
  LET w == Len(window)
      mid == w \div 2
      older == StatedSum(window, mid + 1, w)
      newer == StatedSum(window, 1, mid)
  IN IF w < 2 THEN "stable"
     ELSE IF older * mid > newer * (w - mid) + 5 * mid * (w - mid) THEN "improving"
     ELSE IF older * mid < newer * (w - mid) - 5 * mid * (w - mid) THEN "declining"
     ELSE "stable"

C28_TrendRule ==
  TrendReturned =>
    IF adj_args.records = <<>>
    THEN /\ adj_ret.trend.window_size = 0
         /\ adj_ret.trend.avg_score.num = 0
         /\ adj_ret.trend.score_trend = "stable"
    ELSE /\ adj_ret.trend.window_size = Len(StatedWindow)
         /\ adj_ret.trend.score_trend = StatedTrend(StatedWindow)

(***************************************************************************)
(* C29: the consecutive_correct returned by calculate_performance_trend is *)
(* the number of records at the front of the window (most recent first)    *)
(* that score 0.60 or more before the first one below 0.60, and            *)
(* consecutive_incorrect the number at the front that score below 0.60     *)
(* before the first one at 0.60 or more.                                   *)
(***************************************************************************)
RECURSIVE StatedRun(_, _)
StatedRun(window, correct) ==
  IF window = <<>> \/ (Head(window).score >= 60) # correct THEN 0
  ELSE 1 + StatedRun(Tail(window), correct)

C29_TrendStreaks ==
  TrendReturned =>
    /\ adj_ret.trend.consecutive_correct = StatedRun(StatedWindow, TRUE)
    /\ adj_ret.trend.consecutive_incorrect = StatedRun(StatedWindow, FALSE)

(***************************************************************************)
(* C30: after every record_performance call (made directly or by advance)  *)
(* exactly one of the session's consecutive_correct and                    *)
(* consecutive_incorrect is non-zero: an answer scoring 0.60 or more adds  *)
(* one to consecutive_correct and zeroes consecutive_incorrect, an answer  *)
(* below 0.60 does the opposite, so each counter is the length of the      *)
(* current run of such answers at the front of the history since prepare.  *)
(***************************************************************************)
RunsMatchHistory ==
  Len(state.history) < HISTORY_CAP =>
    /\ state.consecutive_correct = StatedRun(state.history, TRUE)
    /\ state.consecutive_incorrect = StatedRun(state.history, FALSE)

C30_Streaks ==
  [][/\ AnswerStep =>
          /\ AnswerScoreOf(resp') >= 60 =>
                /\ state'.consecutive_correct = state.consecutive_correct + 1
                /\ state'.consecutive_incorrect = 0
          /\ AnswerScoreOf(resp') < 60 =>
                /\ state'.consecutive_incorrect = state.consecutive_incorrect + 1
                /\ state'.consecutive_correct = 0
          /\ (state'.consecutive_correct = 0) # (state'.consecutive_incorrect = 0)
     /\ RunsMatchHistory']_vars

C30_Witness ==
  /\ resp.op = "record_performance"
  /\ resp.args.score = 60
  /\ state.consecutive_correct = 2
  /\ state.consecutive_incorrect = 0
  /\ Len(state.history) = 4
  /\ state.history[3].score < 60
  /\ state.history[4].score >= 60

(***************************************************************************)
(* C31: a record's in_optimal_zone flag, in the record_performance         *)
(* response, in the session history and in the persisted performance       *)
(* record, is true exactly when 0.60 <= score <= 0.85, both bounds         *)
(* included; and the optimal_zone_ratio of the trend over the window of    *)
(* the five most recent records is the fraction of the window's records    *)
(* that satisfy that condition.                                            *)
(***************************************************************************)
StatedZone(score) == 60 <= score /\ score <= 85

StatedZoneCount(window) ==
  Cardinality({i \in 1..Len(window) : StatedZone(window[i].score)})

C31_OptimalZone ==
  /\ (resp.op = "record_performance" /\ resp.status = "success") =>
        (resp.in_optimal_zone <=> StatedZone(resp.args.score))
  /\ \A i \in 1..Len(state.history) :
        state.history[i].in_optimal_zone <=> StatedZone(state.history[i].score)
  /\ \A i \in 1..Len(db.performance_records) :
        db.performance_records[i].in_optimal_zone
          <=> StatedZone(db.performance_records[i].score)
  /\ state.history # <<>> =>
        LET window == Take(state.history, TREND_WINDOW)
            ratio == calculate_performance_trend(state.history,
                                                 TREND_WINDOW).optimal_zone_ratio
        IN ratio.num * Len(window) = StatedZoneCount(window) * ratio.den

C31_Witness ==
  /\ resp.op = "record_performance"
  /\ resp.args.score = 85
  /\ resp.in_optimal_zone
  /\ Len(state.history) >= 3
  /\ state.history[2].score = 60
  /\ state.history[2].in_optimal_zone
  /\ state.history[3].score = 100
  /\ ~state.history[3].in_optimal_zone
  /\ db.performance_records # <<>>

(***************************************************************************)
(* C32: for every answer given through advance (storage working), the      *)
(* difficulty_level of the persisted performance record equals the         *)
(* difficulty_level of the session-history record of that answer, namely   *)
(* the level in force when the question was answered, before any           *)
(* adjustment the answer triggers.                                         *)
(***************************************************************************)
LevelInForce(st) == IF st.level = Absent THEN DEFAULT_LEVEL ELSE st.level

C32_PersistedLevelAtAnswer ==
  [][AdvanceStep /\ resp'.args.up =>
       LET persisted == db'.performance_records[Len(db'.performance_records)]
       IN /\ Len(db'.performance_records) = Len(db.performance_records) + 1
          /\ state'.history[1].difficulty_level = LevelInForce(state)
          /\ persisted.difficulty_level = state'.history[1].difficulty_level]_vars

(***************************************************************************)
(* C33: under any interleaving of prepare, advance and                     *)
(* set_difficulty_level calls issued by two different users in separate    *)
(* sessions, each user's session state and persisted mastery, performance  *)
(* and adjustment records are the same as if that user's calls had run     *)
(* alone.                                                                  *)
(***************************************************************************)
RECURSIVE RunAlone(_)
RunAlone(log) ==
  IF log = <<>> THEN [state |-> EmptyState, db |-> EmptyDb]
  ELSE LET before == RunAlone(SubSeq(log, 1, Len(log) - 1))
           call == log[Len(log)]
       IN CASE call.op = "prepare" ->
                 LET r == prepare_quiz(before.state, before.db, TRUE, MaxSnippets, TRUE)
                 IN [state |-> r.state, db |-> r.db]
            [] call.op = "advance" ->
                 LET r == advance_quiz(before.state, before.db, call.correct, "c1", TRUE)
                 IN [state |-> r.state, db |-> r.db]
            [] OTHER ->
                 [state |-> set_difficulty_level(before.state, MAX_LEVEL).state,
                  db |-> before.db]

C33_UsersIsolated ==
  \A u \in Users :
    LET alone == RunAlone(adj_args[u])
    IN /\ state[u] = alone.state
       /\ db[u].mastery = alone.db.mastery
       /\ db[u].performance_records = alone.db.performance_records
       /\ db[u].difficulty_history = alone.db.difficulty_history

C33_Witness ==
  /\ Len(adj_args["u1"]) = 3
  /\ Len(adj_args["u2"]) = 3
  /\ state["u1"].level = 2
  /\ state["u2"].level = MAX_LEVEL
  /\ Len(db["u1"].difficulty_history) = 1
  /\ db["u2"].difficulty_history = <<>>
  /\ db["u2"].performance_records # <<>>

(***************************************************************************)
(* C34: after every record_performance or advance call the session's       *)
(* scaffolding_active flag is true exactly when that call lowered the      *)
(* difficulty level; so a following answer that does not lower the level   *)
(* switches scaffolding off, and at level 1 scaffolding is never active    *)
(* after an answer, however many failing answers are recorded.             *)
(***************************************************************************)
LoweredLevel == LevelInForce(state') < LevelInForce(state)

C34_ScaffoldingIffLowered ==
  [][AnswerStep =>
       /\ state'.scaffolding_active <=> LoweredLevel
       /\ LevelInForce(state) = MIN_LEVEL => ~state'.scaffolding_active]_vars

C34_Witness ==
  /\ resp.op = "record_performance"
  /\ resp.status = "success"
  /\ Len(state.history) = 3
  /\ state.history[1].score >= 60
  /\ state.history[2].score < 50
  /\ state.history[3].score < 50
  /\ state.history[2].difficulty_level = 3
  /\ state.level = 2
  /\ ~state.scaffolding_active

(***************************************************************************)
(* C35: in every state reached after a successful prepare with N snippets, *)
(* 0 <= index <= N and the correct count is at most N: an advance made     *)
(* after the quiz is done moves neither past the snippet count.            *)
(***************************************************************************)
C35_IndexWithinQuiz ==
  state.snippets # <<>> =>
    /\ 0 <= state.index
    /\ state.index <= Len(state.snippets)
    /\ state.correct <= Len(state.snippets)

(***************************************************************************)
(* C36: for every complexity in 1..5 the increase threshold is strictly    *)
(* greater than the decrease threshold, so no score is both at or above    *)
(* the increase threshold and below the decrease threshold.                *)
(***************************************************************************)
BothHighAndLow(score, c) ==
  /\ 3 * score >= increase_threshold(c)
  /\ 3 * score < decrease_threshold(c)

Top2StatedLow ==
  /\ Len(CallRecords) >= 2
  /\ \A i \in 1..2 : 3 * CallRecords[i].score < StatedDecreaseThreshold(CallComplexity)

C36_ThresholdOrder ==
  AdjReturned =>
    /\ increase_threshold(CallComplexity) > decrease_threshold(CallComplexity)
    /\ \A i \in 1..Len(CallRecords) : ~BothHighAndLow(CallRecords[i].score, CallComplexity)
    /\ adj_ret.reason = "increase_rule" => ~Top2StatedLow

(***************************************************************************)
(* C36 as the code has it: the order holds for every complexity in 2..5;   *)
(* at complexity 1 the increase threshold (0.85/3) is below the decrease   *)
(* threshold (0.30), a score of 0.29 is both at or above the one and below *)
(* the other, and a window of three such hint-free scores is answered by   *)
(* the increase rule.                                                      *)
(***************************************************************************)
C36_ThresholdOrderAmended ==
  AdjReturned =>
    /\ CallComplexity \in 2..5 =>
          /\ increase_threshold(CallComplexity) > decrease_threshold(CallComplexity)
          /\ \A i \in 1..Len(CallRecords) :
                ~BothHighAndLow(CallRecords[i].score, CallComplexity)
          /\ adj_ret.reason = "increase_rule" => ~Top2StatedLow
    /\ CallComplexity = 1 =>
          /\ increase_threshold(1) < decrease_threshold(1)
          /\ \A i \in 1..Len(CallRecords) :
                BothHighAndLow(CallRecords[i].score, 1)
                  <=> (85 <= 3 * CallRecords[i].score /\ 3 * CallRecords[i].score < 90)
          /\ (/\ Len(CallRecords) >= 3
              /\ \A i \in 1..3 : CallRecords[i].score = 29 /\ CallRecords[i].hints_used = 0)
             => adj_ret.reason = "increase_rule" /\ Top2StatedLow

C36_Witness ==
  /\ AdjReturned
  /\ CallComplexity = 1
  /\ CallLevel = 3
  /\ Len(CallRecords) = 3
  /\ \A i \in 1..3 : CallRecords[i].score = 29 /\ CallRecords[i].hints_used = 0
  /\ adj_ret.reason = "increase_rule"
  /\ adj_ret.new_level = 4

(***************************************************************************)
(* C37: the trend_direction returned by record_performance is 'improving'  *)
(* when the newer half of the newest-first window of five has a mean score *)
(* more than 0.05 above the older half and 'declining' when it is more     *)
(* than 0.05 below; a learner whose recorded scores rise over time is      *)
(* never reported as 'declining'.                                          *)
(***************************************************************************)
RecentScores ==
  LET window == Take(state.history, TREND_WINDOW)
  IN [i \in 1..Len(window) |-> window[i].score]

NewerAbove(scores) ==
  LET mid == Len(scores) \div 2
      older == Len(scores) - mid
  IN SumScores(SubSeq(scores, 1, mid)) * older
       > SumScores(SubSeq(scores, mid + 1, Len(scores))) * mid + 5 * mid * older

NewerBelow(scores) ==
  LET mid == Len(scores) \div 2
      older == Len(scores) - mid
  IN SumScores(SubSeq(scores, 1, mid)) * older
       < SumScores(SubSeq(scores, mid + 1, Len(scores))) * mid - 5 * mid * older

RisingOverTime(scores) ==
  /\ \A i \in 1..(Len(scores) - 1) : scores[i] >= scores[i + 1]
  /\ scores[1] > scores[Len(scores)]

C37_TrendDirection ==
  (resp.op = "record_performance" /\ resp.status = "success" /\ Len(RecentScores) >= 2) =>
    /\ NewerAbove(RecentScores) => resp.trend.trend_direction = "improving"
    /\ NewerBelow(RecentScores) => resp.trend.trend_direction = "declining"
    /\ RisingOverTime(RecentScores) => resp.trend.trend_direction # "declining"

(***************************************************************************)
(* C38: every answer recorded through advance carries the question_type    *)
(* 'quiz_question', which the struggle-area table does not list; so in a   *)
(* session whose history was filled only by advance, every scaffolding     *)
(* bundle returned by advance or get_scaffolding reports struggle_area     *)
(* 'definition'.                                                           *)
(***************************************************************************)
FilledOnlyByAdvance ==
  \A i \in 1..Len(state.history) : state.history[i].question_type = "quiz_question"

BundleNamesDefinition ==
  /\ (resp.op = "advance" /\ resp.status = "success" /\ resp.scaffolding # NoBundle) =>
        resp.scaffolding.struggle_area = "definition"
  /\ (resp.op = "get_scaffolding" /\ resp.scaffolding_active) =>
        resp.struggle_area = "definition"

C38_AdvanceBundleDefinition ==
  [][/\ AdvanceStep =>
          /\ state'.history[1].question_type = "quiz_question"
          /\ resp'.args.up =>
                db'.performance_records[Len(db'.performance_records)].question_type
                  = "quiz_question"
     /\ (FilledOnlyByAdvance => BundleNamesDefinition)']_vars

C38_Witness ==
  /\ resp.op = "get_scaffolding"
  /\ resp.scaffolding_active
  /\ resp.struggle_area = "definition"
  /\ Len(state.history) = 2
  /\ FilledOnlyByAdvance

(***************************************************************************)
(* C39: record_performance, set_difficulty_level and get_scaffolding       *)
(* surface 'quiz not prepared' as an error like the other inbound          *)
(* operations: called with a session context in which no quiz has been     *)
(* prepared, each returns status 'error' with an error_message and leaves  *)
(* the session state unchanged.                                            *)
(***************************************************************************)
NoQuizPrepared(st) == st.snippets = <<>>

DifficultyTools == {"record_performance", "set_difficulty_level", "get_scaffolding"}

UnpreparedDifficultyCall ==
  CallStep /\ NoQuizPrepared(state) /\ resp'.op \in DifficultyTools

C39_UnpreparedDifficultyErrors ==
  [][UnpreparedDifficultyCall =>
       /\ resp'.status = "error"
       /\ "error_message" \in DOMAIN resp'
       /\ state' = state]_vars

(***************************************************************************)
(* C39 as the code has it: with a session context in which no quiz has     *)
(* been prepared the three operations return status 'success' without an   *)
(* error_message.  record_performance records the answer at the level in   *)
(* force (3 while none is set) in front of the history,                    *)
(* set_difficulty_level sets the clamped level and reports the previous    *)
(* level (3 while none is set), get_scaffolding leaves the state           *)
(* unchanged; none of them touches storage or prepares a quiz.             *)
(***************************************************************************)
C39_UnpreparedDifficultySucceeds ==
  [][UnpreparedDifficultyCall =>
       /\ resp'.status = "success"
       /\ "error_message" \notin DOMAIN resp'
       /\ db' = db
       /\ NoQuizPrepared(state')
       /\ resp'.op = "record_performance" =>
             /\ Len(state'.history) = Len(state.history) + 1
             /\ state'.history[1].score = resp'.args.score
             /\ state'.history[1].difficulty_level
                  = (IF state.level = Absent THEN 3 ELSE state.level)
             /\ resp'.difficulty_adjustment.previous_level
                  = (IF state.level = Absent THEN 3 ELSE state.level)
       /\ resp'.op = "set_difficulty_level" =>
             /\ resp'.previous_level = (IF state.level = Absent THEN 3 ELSE state.level)
             /\ state'.level = resp'.new_level
             /\ state'.history = state.history
       /\ resp'.op = "get_scaffolding" => state' = state]_vars

C39_Witness ==
  /\ NoQuizPrepared(state)
  /\ resp.op = "set_difficulty_level"
  /\ resp.status = "success"
  /\ resp.previous_level = 3
  /\ state.level = 5
  /\ Len(state.history) = 1
  /\ state.history[1].difficulty_level = 3

(***************************************************************************)
(* C40: from any prepared, not yet done quiz state, if advances with       *)
(* correct=True keep occurring the quiz eventually reaches Done; an        *)
(* incorrect advance never makes it Done; and once Done it stays Done      *)
(* under further advance, reveal and get_quiz_step calls until the next    *)
(* prepare.                                                                *)
(***************************************************************************)
InProgress == state.snippets # <<>> /\ ~QuizDone(state)

ReportsDone == resp.op = "advance" /\ resp.status = "success" /\ resp.done

C40_ReachesDone ==
  /\ InProgress ~> (QuizDone(state) /\ ReportsDone)
  /\ [][/\ (AdvanceStep /\ ~resp'.args.correct /\ InProgress) =>
              (InProgress' /\ ~resp'.done)
        /\ (CallStep /\ QuizDone(state)
            /\ resp'.op \in {"advance", "reveal_context", "get_quiz_step"}) =>
              (QuizDone(state') /\ (resp'.op = "advance" => resp'.done))]_vars

C40_Witness ==
  /\ QuizDone(state)
  /\ ReportsDone
  /\ Len(state.snippets) = 2
  /\ state.index = 2
  /\ state.total_mistakes >= 1

====
